---- MODULE Spec2Model ----
(***************************************************************************)
(* GatewayClient (src/src/gateway.ts): one upstream WebSocket client with  *)
(* challenge/response handshake, request/response correlation, event       *)
(* dispatch and reconnect.  The browser's WebSocket objects, the timers    *)
(* and the upstream gateway are the environment: sockets open, fail and    *)
(* close, timers fire, and the gateway sends arbitrary frames.             *)
(***************************************************************************)
EXTENDS Integers, Sequences, FiniteSets, TLC

\* ---- bounds of the model ------------------------------------------------
MaxSockets == 2
MaxReq == 2
MaxClock == 2
MaxIds == 3
MaxStale == 2
MaxTimers == 2
MaxText == 6
MaxTurns == 2
MaxFetches == 1
MaxListFetches == 1

\* federated sessions the backend creates
MaxFedSessions == 2

\* user turns sent through useFederatedChat
MaxFedTurns == 1

\* delta events of one source in one turn
MaxDeltas == 2

\* event frames dispatched to the subscribers of one event name
MaxEvents == 2

\* length of the handler array of one event name
MaxHandlers == 3

\* handler invocations of the two clients that differ in their credentials
MaxSecSteps == 3

\* ---- program constants --------------------------------------------------
maxReconnectAttempts == 10

VARIABLES
    config,             \* GatewayConfig: [urlOk] (new WebSocket(url) throws on a bad url)
    ws,                 \* this.ws: 0 (null) or the index of the current socket
    wsState,            \* readyState of every socket ever created
    dialTimer,          \* the 15 s timeout of each _connect call is armed
    connProm,           \* the promise returned by each _connect call
    pending,            \* keys of this.pending
    reqTimers,          \* request ids whose timeout timer is armed
    connected,          \* this._connected
    reconnectTimer,     \* this.reconnectTimer: "null", "live" or "dead" handle
    timersArmed,        \* number of reconnect timers armed (current and overwritten)
    reconnectAttempts,
    shouldReconnect,
    connectResolve,     \* 0 (null) or the _connect promise it resolves
    connectReject,      \* 0 (null) or the _connect promise it rejects
    connectId,          \* "null" or the id of the last connect request
    reqCounter,         \* module-level counter of nextId
    now,                \* Date.now()
    issued,             \* every id nextId has returned, in order
    outcome,            \* how each settled request was settled
    resettled,          \* resolve/reject was invoked on a settled request
    challenged,         \* open sockets on which connect.challenge was received
    lastOp,             \* the handler that ran last, with its inputs
    emitted,            \* events emitted by the last handler
    sent,               \* frames sent by the last handler
    settled,            \* promises settled by the last handler
    chat,               \* a ChatSocket (src/src/store.ts) with its sockets and timers
    chatLast,           \* the ChatSocket handler that ran last, with its inputs
    chatEmitted,        \* events the ChatSocket emitted in the last handler
    chatSent,           \* frames the ChatSocket sent in the last handler
    text,               \* text of an upstream final event, as a sequence of tokens
    cleaned,            \* stripThinking(text) in the final handler of useGateways
    storedText,         \* texts of the assistant messages the handler stored
    twice,              \* stripThinking applied to cleaned
    textPc,             \* "input", "final" (handler ran), "again" (filtered twice)
    activeGatewayId,    \* useGateways state: "null" or a gateway id
    activeSessionKey,   \* useGateways state
    streaming,          \* useGateways state
    messagesBySession,  \* useGateways state: the list of every "gatewayId|sessionKey"
    inflight,           \* turns sent upstream whose final or error is still to come
    persisted,          \* the backend's stored history of every (gateway, session)
    fetches,            \* history requests under way, with the response once produced
    turnsSent,          \* number of turns sent so far
    hookLast,           \* the useGateways callback that ran last
    switchingRef,       \* useGateways switchingRef.current
    listFetches,        \* apiListSessions calls of switchGateway still awaited
    hookError,          \* useGateways error state
    fed,                \* useFederatedChat: its state, streamingSourcesRef, the socket
    fedSessionCount,    \* federated sessions the backend has created so far
    fedTurns,           \* the session each federated turn was sent in
    fedTurn,            \* the turn under way in the active session, 0 if none
    fedRuns,            \* what every source has emitted for every turn
    eventHandlers,      \* eventHandlers.get(event): the handler array of one event name
    evReceived,         \* event frames of that name received so far
    evDelivered,        \* the events each handler was invoked with, in order
    evOwed,             \* the events dispatched while each handler was subscribed
    secRuns,            \* two GatewayClients given the same inputs, with their outputs
    secSteps,           \* handlers the two clients have run so far
    upstream,           \* a GatewayClient: its socket and reconnect fields
    downstream,         \* a ChatSocket given the same socket outcomes
    reconEmitted,       \* what each of the two emitted in the last step
    reconLast           \* the outcome the two were given last

gatewayVars == <<config, ws, wsState, dialTimer, connProm, pending, reqTimers,
                 connected, reconnectTimer, timersArmed, reconnectAttempts,
                 shouldReconnect, connectResolve, connectReject, connectId,
                 reqCounter, now, issued, outcome, resettled, challenged,
                 lastOp, emitted, sent, settled>>

chatVars == <<chat, chatLast, chatEmitted, chatSent>>

textVars == <<text, cleaned, storedText, twice, textPc>>

hookVars == <<activeGatewayId, activeSessionKey, streaming, messagesBySession,
              inflight, persisted, fetches, turnsSent, hookLast, switchingRef,
              listFetches, hookError>>

fedVars == <<fed, fedSessionCount, fedTurns, fedTurn, fedRuns>>

emitVars == <<eventHandlers, evReceived, evDelivered, evOwed>>

secVars == <<secRuns, secSteps>>

reconVars == <<upstream, downstream, reconEmitted, reconLast>>

vars == <<gatewayVars, chatVars, textVars, hookVars, fedVars, emitVars, secVars, reconVars>>

nonGatewayVars == <<chatVars, textVars, hookVars, fedVars, emitVars, secVars, reconVars>>

nonChatVars == <<gatewayVars, textVars, hookVars, fedVars, emitVars, secVars, reconVars>>

nonTextVars == <<gatewayVars, chatVars, hookVars, fedVars, emitVars, secVars, reconVars>>

nonHookVars == <<gatewayVars, chatVars, textVars, fedVars, emitVars, secVars, reconVars>>

nonFedVars == <<gatewayVars, chatVars, textVars, hookVars, emitVars, secVars, reconVars>>

nonEmitVars == <<gatewayVars, chatVars, textVars, hookVars, fedVars, secVars, reconVars>>

nonSecVars == <<gatewayVars, chatVars, textVars, hookVars, fedVars, emitVars, reconVars>>

nonReconVars == <<gatewayVars, chatVars, textVars, hookVars, fedVars, emitVars, secVars>>

Sockets == 1..MaxSockets

Clients == {"g1", "g2"}

Min(a, b) == IF a < b THEN a ELSE b

RECURSIVE Pow2(_)
Pow2(n) == IF n = 0 THEN 1 ELSE 2 * Pow2(n - 1)

\* ---- frames the gateway can send ----------------------------------------
NoMsg == [type |-> "none", event |-> "none", id |-> "none", ok |-> "none",
          error |-> "none", payload |-> "none"]

Payloads == {"none", "p1"}

IssuedIds == {issued[i].id : i \in 1..Len(issued)}

\* A response is read through msg.id, msg.ok !== false, !msg.error,
\* msg.error?.message and msg.payload.  ok is "false" or anything else ("none");
\* error is absent, an object without message, or an object with message "e1";
\* the payload of a failed response is never read.
ResFrames ==
    [type : {"res"}, event : {"none"}, id : IssuedIds \cup {"bogus"},
     ok : {"none"}, error : {"none"}, payload : Payloads]
    \cup
    [type : {"res"}, event : {"none"}, id : IssuedIds \cup {"bogus"},
     ok : {"false"}, error : {"none", "noMessage", "e1"}, payload : {"none"}]
    \cup
    [type : {"res"}, event : {"none"}, id : IssuedIds \cup {"bogus"},
     ok : {"none"}, error : {"e1"}, payload : {"none"}]

\* of a response that completes nothing only the id is read
IdOnly(m) == [NoMsg EXCEPT !.type = "res", !.id = m.id]

EventFrames ==
    [type : {"event"}, event : {"chat", "exec.approval.requested", "tick"},
     id : {"none"}, ok : {"none"}, error : {"none"}, payload : {"p1"}]

ChallengeFrame == [NoMsg EXCEPT !.type = "event", !.event = "connect.challenge"]

\* unparsable text, or JSON of another type
JunkFrames == {[NoMsg EXCEPT !.type = "junk"], [NoMsg EXCEPT !.type = "other"]}

\* ---- records of what a handler did --------------------------------------
Op(name, s, m, id, was) ==
    [op |-> name, sock |-> s, msg |-> m, id |-> id, was |-> was]

Ev(name, attempt, delay, data) ==
    [name |-> name, attempt |-> attempt, delay |-> delay, data |-> data]

ReqSettle(id, how, value) ==
    [kind |-> "request", sock |-> 0, id |-> id, how |-> how, value |-> value]

ConnSettle(s, how, value) ==
    [kind |-> "connect", sock |-> s, id |-> "none", how |-> how, value |-> value]

Frame(s, id, method) == [sock |-> s, type |-> "req", id |-> id, method |-> method]

nSock == Cardinality({s \in Sockets : wsState[s] # "unused"})

\* a ChatSocket after construction (store.ts 249-260); WS_BASE may be a url
\* the WebSocket constructor rejects
InitChatSocket(urlOk) ==
    [urlOk |-> urlOk, ws |-> "null", gwId |-> "null", reconnectTimer |-> "null",
     reconnectAttempts |-> 0, shouldReconnect |-> TRUE, pingInterval |-> FALSE,
     pongTimeout |-> "null",
     stale |-> 0, timersArmed |-> 0, pingDue |-> 0, pong0 |-> 0, pong1 |-> 0]

ChatOp(name, code, was) == [op |-> name, code |-> code, was |-> was]

InitChat ==
    /\ chat = InitChatSocket(TRUE)
    /\ chatLast = ChatOp("init", "none", "null")
    /\ chatEmitted = <<>>
    /\ chatSent = <<>>

InitGateway ==
    /\ config \in [urlOk : BOOLEAN]
    /\ ws = 0
    /\ wsState = [s \in Sockets |-> "unused"]
    /\ dialTimer = [s \in Sockets |-> FALSE]
    /\ connProm = [s \in Sockets |-> "none"]
    /\ pending = {}
    /\ reqTimers = {}
    /\ connected = FALSE
    /\ reconnectTimer = "null"
    /\ timersArmed = 0
    /\ reconnectAttempts = 0
    /\ shouldReconnect = TRUE
    /\ connectResolve = 0
    /\ connectReject = 0
    /\ connectId = "null"
    /\ reqCounter = 0
    /\ now = 0
    /\ issued = <<>>
    /\ outcome = [id \in {} |-> "none"]
    /\ resettled = FALSE
    /\ challenged = {}
    /\ lastOp = Op("init", 0, NoMsg, "none", FALSE)
    /\ emitted = <<>>
    /\ sent = <<>>
    /\ settled = {}

InitText ==
    /\ text = <<>>
    /\ cleaned = <<>>
    /\ storedText = <<>>
    /\ twice = <<>>
    /\ textPc = "input"

Gateways == {"g1", "g2"}

SessionKeys == {"k1", "k2"}

\* getSessionKey (part_003 302-304): `${gwId}|${sessionKey}`
getSessionKey(gwId, sessionKey) == gwId \o "|" \o sessionKey

StorageKeys == {getSessionKey(g, k) : g \in Gateways, k \in SessionKeys}

HookOp(name, gw, key) == [op |-> name, gw |-> gw, key |-> key]

\* useGateways after mount (part_003 275-299); messagesBySession.get(key) || []
InitHookState(gw, key) ==
    /\ activeGatewayId = gw
    /\ activeSessionKey = key
    /\ streaming = FALSE
    /\ messagesBySession = [s \in StorageKeys |-> <<>>]
    /\ inflight = {}
    /\ persisted = [s \in StorageKeys |-> <<>>]
    /\ fetches = {}
    /\ turnsSent = 0
    /\ hookLast = HookOp("init", "null", "null")
    /\ switchingRef = FALSE
    /\ listFetches = 0
    /\ hookError = "null"

InitHook == InitHookState("null", "k1")

\* sources that answer a federated turn; the stream handler keys them by
\* `${source.gateway_id}:${source.agent_name}` (part_003 52)
FedSources == {[gateway_id |-> "g1", agent_name |-> "a"],
               [gateway_id |-> "g2", agent_name |-> "b"]}

sourceKey(source) == source.gateway_id \o ":" \o source.agent_name

SourceKeys == {sourceKey(s) : s \in FedSources}

FedSessionIds == 1..MaxFedSessions

FedTurnIds == 1..MaxFedTurns

\* a source's stream for one turn: "idle", "streaming" once it has emitted a
\* delta with text, "final" or "error" after its last event; deltas counts the
\* delta events it has emitted and text is their texts in the order emitted
FedRun(state, deltas, txt) == [state |-> state, deltas |-> deltas, text |-> txt]

NoSource == [gateway_id |-> "none", agent_name |-> "none"]

\* useFederatedChat after mount (part_003 28-37, 40-43); connected is true
\* from the 'connected' message of an opened socket to its close event
InitFed ==
    /\ fed = [federatedSessions |-> {}, activeFederatedSession |-> 0,
              messages |-> <<>>, streamingMessages |-> [k \in {} |-> ""],
              streaming |-> FALSE, connected |-> FALSE, error |-> "null",
              streamingSources |-> {}]
    /\ fedSessionCount = 0
    /\ fedTurns = <<>>
    /\ fedTurn = 0
    /\ fedRuns = [t \in FedTurnIds |-> [s \in FedSources |-> FedRun("idle", 0, "")]]

\* handlers that callers pass to on() (gateway.ts 242-248, store.ts 427-433)
Handlers == {"h1", "h2", "h3"}

\* no handler is subscribed after construction (gateway.ts 30, store.ts 254)
InitEmit ==
    /\ eventHandlers = <<>>
    /\ evReceived = 0
    /\ evDelivered = [h \in Handlers |-> <<>>]
    /\ evOwed = [h \in Handlers |-> <<>>]

\* a GatewayConfig (types.ts 3-9) with its credentials
SecConfig(token, password) ==
    [id |-> "g1", name |-> "gw", url |-> "ws://gw", token |-> token,
     password |-> password]

\* a GatewayClient after construction (gateway.ts 18-34) and what it has
\* put out: frames sent, console lines, events emitted, and the gateway
\* entries of useGateways built for it
SecRun(cfg) ==
    [config |-> cfg, connectId |-> "null", connected |-> FALSE, reqCounter |-> 0,
     frames |-> <<>>, log |-> <<>>, events |-> <<>>, gateways |-> <<>>]

InitSec ==
    /\ secRuns = [r \in {1, 2} |-> SecRun(SecConfig("", ""))]
    /\ secSteps = 0

\* the reconnect fields of a GatewayClient after construction (gateway.ts 17-27)
ReconUpstream ==
    [ws |-> "null", connected |-> FALSE, reconnectAttempts |-> 0,
     shouldReconnect |-> TRUE, reconnectTimer |-> "null", timersArmed |-> 0,
     stale |-> 0]

ReconOp(name, code) == [op |-> name, code |-> code]

InitRecon ==
    /\ upstream = ReconUpstream
    /\ downstream = InitChatSocket(TRUE)
    /\ reconEmitted = [up |-> <<>>, down |-> <<>>]
    /\ reconLast = ReconOp("init", "none")

Init ==
    /\ InitGateway /\ InitChat /\ InitText /\ InitHook /\ InitFed /\ InitEmit
    /\ InitSec /\ InitRecon

\* ---- nextId (gateway.ts 13-16) ------------------------------------------
\* `r${++reqCounter}_${Date.now()}`
\* nextId without the increment of reqCounter
nextIdNoIncrement(counter, t) ==
    [id |-> "r" \o ToString(counter + 1) \o "_" \o ToString(t), counter |-> counter]

\* the id returned and the counter it leaves behind
nextId(counter, t) ==
    [id |-> "r" \o ToString(counter + 1) \o "_" \o ToString(t), counter |-> counter + 1]

IdRec(site, who) ==
    [id |-> nextId(reqCounter, now).id, n |-> nextId(reqCounter, now).counter,
     site |-> site, by |-> who]

\* ---- WebSocket.close() and WebSocket.send() of the browser -------------
CloseSock(st, s) ==
    IF s = 0 THEN st
    ELSE [st EXCEPT ![s] = CASE @ = "connecting" -> "closing0"
                             [] @ = "open" -> "closing"
                             [] OTHER -> @]

\* this.ws?.send(...): nothing is sent through a null this.ws; send() throws
\* while CONNECTING (the handler ends there), transmits while OPEN and drops
\* the frame while CLOSING or CLOSED
Transmits(s) == s # 0 /\ wsState[s] = "open"

\* ---- promise bookkeeping ------------------------------------------------
SettleConn(cp, s) ==
    IF s # 0 /\ cp[s] = "pending" THEN [cp EXCEPT ![s] = "settled"] ELSE cp

ConnSettles(cp, s, how, value) ==
    IF s # 0 /\ cp[s] = "pending" THEN {ConnSettle(s, how, value)} ELSE {}

RecordOutcome(o, ids, how) ==
    [id \in (DOMAIN o) \cup ids |-> IF id \in ids THEN how ELSE o[id]]

\* ---- flushPending (gateway.ts 264-270) ----------------------------------
flushPendingRejects(p, error) == {ReqSettle(id, "reject", error) : id \in p}

\* flushPending without this.pending.clear()
flushPendingTableKept(p) == p

flushPendingTable(p) == {}

\* flushPending without clearTimeout(p.timer)
flushPendingTimersKept(t, p) == t

flushPendingTimers(t, p) == t \ p

\* ---- scheduleReconnect (gateway.ts 107-123) -----------------------------
BackoffDelay(attempts) == Min(1000 * Pow2(attempts), 30000)

scheduleReconnect(attempts) ==
    IF attempts >= maxReconnectAttempts
    THEN [attempts |-> attempts, armed |-> FALSE,
          emitted |-> <<Ev("reconnect_failed", 0, 0, "none")>>]
    ELSE [attempts |-> attempts + 1, armed |-> TRUE,
          emitted |-> <<Ev("reconnecting", attempts + 1, BackoffDelay(attempts), "none")>>]

NoSchedule == [attempts |-> reconnectAttempts, armed |-> FALSE, emitted |-> <<>>]

\* the close handler reconnects only after an established connection
closeReschedules(wasConnected, should) == wasConnected /\ should

\* ---- _connect (gateway.ts 45-105): the synchronous part ------------------
\* creates the socket, takes over connectResolve/connectReject and arms the
\* 15 s timeout; a url the WebSocket constructor rejects settles the promise
\* at once and leaves this.ws alone.
Dial ==
    IF config.urlOk
    THEN /\ nSock < MaxSockets
         /\ LET s == nSock + 1 IN
            /\ ws' = s
            /\ wsState' = [wsState EXCEPT ![s] = "connecting"]
            /\ dialTimer' = [dialTimer EXCEPT ![s] = TRUE]
            /\ connProm' = [connProm EXCEPT ![s] = "pending"]
            /\ connectResolve' = s
            /\ connectReject' = s
            /\ settled' = {}
    ELSE /\ settled' = {ConnSettle(0, "reject", "SyntaxError")}
         /\ UNCHANGED <<ws, wsState, dialTimer, connProm,
                        connectResolve, connectReject>>

\* ---- connect() (gateway.ts 39-43) ---------------------------------------
Connect ==
    /\ shouldReconnect' = TRUE
    /\ reconnectAttempts' = 0
    /\ Dial
    /\ lastOp' = Op("connect", IF config.urlOk THEN nSock + 1 ELSE 0, NoMsg, "none", connected)
    /\ emitted' = <<>>
    /\ sent' = <<>>
    /\ UNCHANGED <<config, pending, reqTimers, connected, reconnectTimer,
                   timersArmed, connectId, reqCounter, now, issued, outcome,
                   resettled, challenged>>

\* ---- the reconnect timer callback (gateway.ts 116-122) ------------------
\* any armed timer may fire: the current one, or one whose handle a later
\* scheduleReconnect overwrote.
ReconnectTimerFires ==
    /\ timersArmed > 0
    /\ \E current \in BOOLEAN :
        /\ current => reconnectTimer = "live"
        /\ ~current => timersArmed > (IF reconnectTimer = "live" THEN 1 ELSE 0)
        /\ reconnectTimer' = IF current THEN "dead" ELSE reconnectTimer
    /\ timersArmed' = timersArmed - 1
    /\ Dial
    /\ lastOp' = Op("reconnectTimer", IF config.urlOk THEN nSock + 1 ELSE 0, NoMsg, "none", connected)
    /\ emitted' = <<>>
    /\ sent' = <<>>
    /\ UNCHANGED <<config, pending, reqTimers, connected, reconnectAttempts,
                   shouldReconnect, connectId, reqCounter, now, issued,
                   outcome, resettled, challenged>>

\* ---- 'open' listener (gateway.ts 64-68) ---------------------------------
SocketOpen(s) ==
    /\ wsState[s] = "connecting"
    /\ wsState' = [wsState EXCEPT ![s] = "open"]
    /\ dialTimer' = [dialTimer EXCEPT ![s] = FALSE]
    /\ lastOp' = Op("open", s, NoMsg, "none", connected)
    /\ emitted' = <<>>
    /\ sent' = <<>>
    /\ settled' = {}
    /\ UNCHANGED <<config, ws, connProm, pending, reqTimers, connected,
                   reconnectTimer, timersArmed, reconnectAttempts,
                   shouldReconnect, connectResolve, connectReject, connectId,
                   reqCounter, now, issued, outcome, resettled, challenged>>

\* ---- the 15 s timeout callback (gateway.ts 57-62) -----------------------
DialTimeout(s) ==
    /\ dialTimer[s]
    /\ dialTimer' = [dialTimer EXCEPT ![s] = FALSE]
    /\ connectResolve' = 0
    /\ connectReject' = 0
    /\ connProm' = SettleConn(connProm, s)
    /\ settled' = ConnSettles(connProm, s, "reject", "Connection timeout")
    /\ wsState' = CloseSock(wsState, ws)
    /\ lastOp' = Op("dialTimeout", s, NoMsg, "none", connected)
    /\ emitted' = <<>>
    /\ sent' = <<>>
    /\ UNCHANGED <<config, ws, pending, reqTimers, connected,
                   reconnectTimer, timersArmed, reconnectAttempts,
                   shouldReconnect, connectId, reqCounter, now, issued,
                   outcome, resettled, challenged>>

\* ---- 'error' and 'close' listeners (gateway.ts 74-103) ------------------
\* The browser fires 'close' alone for a closure after the opening handshake
\* and 'error' followed by 'close', in one task, when the connection fails.
CloseEvents(s, withError) ==
    LET errRej == IF withError
                  THEN ConnSettles(connProm, connectReject, "reject", "WebSocket error")
                  ELSE {}
        closeRej == IF withError
                    THEN {}
                    ELSE ConnSettles(connProm, connectReject, "reject", "Connection closed")
        wasConnected == connected
        sched == IF closeReschedules(wasConnected, shouldReconnect)
                 THEN scheduleReconnect(reconnectAttempts)
                 ELSE NoSchedule
    IN
    /\ wsState' = [wsState EXCEPT ![s] = "closed"]
    /\ dialTimer' = [dialTimer EXCEPT ![s] = FALSE]
    /\ connected' = FALSE
    /\ connProm' = SettleConn(connProm, connectReject)
    /\ connectResolve' = IF connectReject # 0 THEN 0 ELSE connectResolve
    /\ connectReject' = 0
    /\ pending' = flushPendingTable(pending)
    /\ reqTimers' = flushPendingTimers(reqTimers, pending)
    /\ outcome' = RecordOutcome(outcome, pending, "flush")
    /\ resettled' = (resettled \/ pending \cap DOMAIN outcome # {})
    /\ settled' = errRej \cup closeRej \cup flushPendingRejects(pending, "Connection closed")
    /\ emitted' = <<Ev("disconnected", 0, 0, IF withError THEN "1006" ELSE "1000")>>
                    \o sched.emitted
    /\ reconnectAttempts' = sched.attempts
    /\ reconnectTimer' = IF sched.armed THEN "live" ELSE reconnectTimer
    /\ timersArmed' = IF sched.armed THEN timersArmed + 1 ELSE timersArmed
    /\ lastOp' = Op(IF withError THEN "errorClose" ELSE "close", s, NoMsg, "none", wasConnected)
    /\ sent' = <<>>
    /\ challenged' = challenged \ {s}
    /\ UNCHANGED <<config, ws, shouldReconnect, connectId, reqCounter,
                   now, issued>>

SocketClose(s) ==
    /\ wsState[s] \in {"open", "closing"}
    /\ CloseEvents(s, FALSE)

SocketError(s) ==
    /\ wsState[s] \in {"connecting", "closing0", "open", "closing"}
    /\ CloseEvents(s, TRUE)

\* ---- sendConnect (gateway.ts 125-163) -----------------------------------
\* the frame goes to this.ws, whichever socket delivered the challenge
sendConnectTarget(s) == ws

\* ---- handleMessage: connect.challenge (gateway.ts 171-176) --------------
RecvChallenge(s) ==
    /\ wsState[s] = "open"
    /\ reqCounter < MaxReq
    /\ LET id == nextId(reqCounter, now).id
           to == sendConnectTarget(s)
       IN
       /\ connectId' = id
       /\ reqCounter' = nextId(reqCounter, now).counter
       /\ issued' = Append(issued, IdRec("sendConnect", "g1"))
       /\ sent' = IF Transmits(to) THEN <<Frame(to, id, "connect")>> ELSE <<>>
       /\ lastOp' = Op("challenge", s, ChallengeFrame, id, connected)
    /\ challenged' = challenged \cup {s}
    /\ emitted' = <<>>
    /\ settled' = {}
    /\ UNCHANGED <<config, ws, wsState, dialTimer, connProm, pending,
                   reqTimers, connected, reconnectTimer, timersArmed,
                   reconnectAttempts, shouldReconnect, connectResolve,
                   connectReject, now, outcome, resettled>>

\* a test that takes every response for a success
IsOkAlways(m) == TRUE

\* msg.ok !== false && !msg.error
IsOk(m) == m.ok # "false" /\ m.error = "none"

\* msg.error?.message || fallback
ErrMessage(m, fallback) == IF m.error \in {"none", "noMessage"} THEN fallback ELSE m.error

IsConnectResponse(m) == connectId # "null" /\ m.id = connectId

\* ---- handleMessage: the connect response (gateway.ts 178-196) -----------
RecvConnectRes(s, m) ==
    /\ wsState[s] = "open"
    /\ m \in ResFrames
    /\ IsConnectResponse(m)
    /\ connectId' = "null"
    /\ IF IsOk(m)
       THEN /\ connected' = TRUE
            /\ reconnectAttempts' = 0
            /\ emitted' = <<Ev("connected", 0, 0, m.payload)>>
            /\ connProm' = SettleConn(connProm, connectResolve)
            /\ settled' = ConnSettles(connProm, connectResolve, "resolve", "none")
       ELSE /\ connProm' = SettleConn(connProm, connectReject)
            /\ settled' = ConnSettles(connProm, connectReject, "reject",
                                      ErrMessage(m, "Connect rejected"))
            /\ emitted' = <<>>
            /\ UNCHANGED <<connected, reconnectAttempts>>
    /\ connectResolve' = 0
    /\ connectReject' = 0
    /\ lastOp' = Op("connectRes", 0, m, m.id, connected)
    /\ sent' = <<>>
    /\ UNCHANGED <<config, ws, wsState, dialTimer, pending, reqTimers,
                   reconnectTimer, timersArmed, shouldReconnect, reqCounter,
                   now, issued, outcome, resettled, challenged>>

\* a lookup that takes any pending slot, whatever the id of the response
pendingSlotAny(p, m) == IF p = {} THEN {} ELSE {CHOOSE id \in p : TRUE}

\* the pending slot a response completes: this.pending.get(msg.id)
pendingSlot(p, m) == IF m.id \in p THEN {m.id} ELSE {}

responseSettle(m) ==
    IF IsOk(m) THEN ReqSettle(m.id, "resolve", m.payload)
    ELSE ReqSettle(m.id, "reject", ErrMessage(m, "Request failed"))

\* ---- handleMessage: a regular response (gateway.ts 198-208) -------------
RecvRes(s, m) ==
    /\ wsState[s] = "open"
    /\ m \in ResFrames
    /\ ~IsConnectResponse(m)
    /\ LET slot == pendingSlot(pending, m) IN
       /\ pending' = pending \ slot
       /\ reqTimers' = reqTimers \ slot
       /\ outcome' = RecordOutcome(outcome, slot, "response")
       /\ resettled' = (resettled \/ slot \cap DOMAIN outcome # {})
       /\ settled' = IF slot = {} THEN {} ELSE {responseSettle(m)}
    /\ lastOp' = Op("res", 0, IF m.id \in pending THEN m ELSE IdOnly(m), m.id, connected)
    /\ emitted' = <<>>
    /\ sent' = <<>>
    /\ UNCHANGED <<config, ws, wsState, dialTimer, connProm, connected,
                   reconnectTimer, timersArmed, reconnectAttempts,
                   shouldReconnect, connectResolve, connectReject, connectId,
                   reqCounter, now, issued, challenged>>

\* ---- handleMessage: other events (gateway.ts 209-219) -------------------
RecvEvent(s, m) ==
    /\ wsState[s] = "open"
    /\ m \in EventFrames
    /\ emitted' = <<Ev("event", 0, 0, m.event)>>
                    \o (IF m.event = "chat" THEN <<Ev("chat.stream", 0, 0, m.event)>> ELSE <<>>)
                    \o (IF m.event = "exec.approval.requested"
                        THEN <<Ev("exec.approval", 0, 0, m.event)>> ELSE <<>>)
    /\ lastOp' = Op("event", 0, m, "none", connected)
    /\ sent' = <<>>
    /\ settled' = {}
    /\ UNCHANGED <<config, ws, wsState, dialTimer, connProm, pending,
                   reqTimers, connected, reconnectTimer, timersArmed,
                   reconnectAttempts, shouldReconnect, connectResolve,
                   connectReject, connectId, reqCounter, now, issued, outcome,
                   resettled, challenged>>

\* ---- handleMessage: unparsable text or another frame type (166-167) -----
RecvJunk(s, m) ==
    /\ wsState[s] = "open"
    /\ m \in JunkFrames
    /\ lastOp' = Op("junk", 0, NoMsg, "none", connected)
    /\ emitted' = <<>>
    /\ sent' = <<>>
    /\ settled' = {}
    /\ UNCHANGED <<config, ws, wsState, dialTimer, connProm, pending,
                   reqTimers, connected, reconnectTimer, timersArmed,
                   reconnectAttempts, shouldReconnect, connectResolve,
                   connectReject, connectId, reqCounter, now, issued, outcome,
                   resettled, challenged>>

\* ---- request (gateway.ts 222-240) ---------------------------------------
\* !this.ws || this.ws.readyState !== WebSocket.OPEN
requestRefused(w, st) == w = 0 \/ st[w] # "open"

Request ==
    IF requestRefused(ws, wsState)
    THEN /\ settled' = {ReqSettle("none", "reject", "Not connected")}
         /\ sent' = <<>>
         /\ lastOp' = Op("request", ws, NoMsg, "none", connected)
         /\ emitted' = <<>>
         /\ UNCHANGED <<config, ws, wsState, dialTimer, connProm,
                        pending, reqTimers, connected, reconnectTimer,
                        timersArmed, reconnectAttempts, shouldReconnect,
                        connectResolve, connectReject, connectId, reqCounter,
                        now, issued, outcome, resettled, challenged>>
    ELSE /\ reqCounter < MaxReq
         /\ LET id == nextId(reqCounter, now).id IN
            /\ pending' = pending \cup {id}
            /\ reqTimers' = reqTimers \cup {id}
            /\ sent' = <<Frame(ws, id, "request")>>
            /\ lastOp' = Op("request", ws, NoMsg, id, connected)
         /\ reqCounter' = nextId(reqCounter, now).counter
         /\ issued' = Append(issued, IdRec("request", "g1"))
         /\ settled' = {}
         /\ emitted' = <<>>
         /\ UNCHANGED <<config, ws, wsState, dialTimer, connProm,
                        connected, reconnectTimer, timersArmed,
                        reconnectAttempts, shouldReconnect, connectResolve,
                        connectReject, connectId, now, outcome, resettled,
                        challenged>>

\* ---- the request timer callback (gateway.ts 230-235) --------------------
\* the request timer without this.pending.delete(id)
timeoutDeleteSkipped(p, id) == p

\* this.pending.delete(id)
timeoutDelete(p, id) == p \ {id}

RequestTimeout(id) ==
    /\ id \in reqTimers
    /\ reqTimers' = reqTimers \ {id}
    /\ LET slot == IF id \in pending THEN {id} ELSE {} IN
       /\ pending' = timeoutDelete(pending, id)
       /\ outcome' = RecordOutcome(outcome, slot, "timeout")
       /\ resettled' = (resettled \/ slot \cap DOMAIN outcome # {})
       /\ settled' = {ReqSettle(i, "reject", "Request timeout") : i \in slot}
    /\ lastOp' = Op("requestTimeout", 0, NoMsg, id, connected)
    /\ emitted' = <<>>
    /\ sent' = <<>>
    /\ UNCHANGED <<config, ws, wsState, dialTimer, connProm, connected,
                   reconnectTimer, timersArmed, reconnectAttempts,
                   shouldReconnect, connectResolve, connectReject, connectId,
                   reqCounter, now, issued, challenged>>

\* ---- disconnect (gateway.ts 272-284) ------------------------------------
Disconnect ==
    /\ shouldReconnect' = FALSE
    /\ reconnectTimer' = "null"
    /\ timersArmed' = IF reconnectTimer = "live" THEN timersArmed - 1 ELSE timersArmed
    /\ wsState' = CloseSock(wsState, ws)
    /\ ws' = 0
    /\ connected' = FALSE
    /\ connectResolve' = 0
    /\ connectReject' = 0
    /\ pending' = flushPendingTable(pending)
    /\ reqTimers' = flushPendingTimers(reqTimers, pending)
    /\ outcome' = RecordOutcome(outcome, pending, "flush")
    /\ resettled' = (resettled \/ pending \cap DOMAIN outcome # {})
    /\ settled' = flushPendingRejects(pending, "Disconnected")
    /\ lastOp' = Op("disconnect", ws, NoMsg, "none", connected)
    /\ emitted' = <<>>
    /\ sent' = <<>>
    /\ UNCHANGED <<config, dialTimer, connProm, reconnectAttempts,
                   connectId, reqCounter, now, issued, challenged>>

Next ==
    \/ Connect /\ UNCHANGED nonGatewayVars
    \/ Disconnect /\ UNCHANGED nonGatewayVars
    \/ Request /\ UNCHANGED nonGatewayVars
    \/ ReconnectTimerFires /\ UNCHANGED nonGatewayVars
    \/ (\E s \in Sockets : SocketOpen(s)) /\ UNCHANGED nonGatewayVars
    \/ (\E s \in Sockets : DialTimeout(s)) /\ UNCHANGED nonGatewayVars
    \/ (\E s \in Sockets : SocketClose(s)) /\ UNCHANGED nonGatewayVars
    \/ (\E s \in Sockets : SocketError(s)) /\ UNCHANGED nonGatewayVars
    \/ (\E s \in Sockets : RecvChallenge(s)) /\ UNCHANGED nonGatewayVars
    \/ (\E s \in Sockets, m \in ResFrames : RecvConnectRes(s, m)) /\ UNCHANGED nonGatewayVars
    \/ (\E s \in Sockets, m \in ResFrames : RecvRes(s, m)) /\ UNCHANGED nonGatewayVars
    \/ (\E s \in Sockets, m \in EventFrames : RecvEvent(s, m)) /\ UNCHANGED nonGatewayVars
    \/ (\E s \in Sockets, m \in JunkFrames : RecvJunk(s, m)) /\ UNCHANGED nonGatewayVars
    \/ (\E id \in reqTimers : RequestTimeout(id)) /\ UNCHANGED nonGatewayVars

Spec == Init /\ [][Next]_vars

\* ids request() can be given within the bounds
RequestIds == {nextId(c, t).id : c \in 0..(MaxReq - 1), t \in 0..MaxClock}

\* the event loop runs every armed setTimeout callback: the timer request()
\* arms (gateway.ts 231-236) fires unless clearTimeout cancels it first
SpecLive ==
    /\ Init
    /\ [][Next]_vars
    /\ \A id \in RequestIds : WF_vars(RequestTimeout(id) /\ UNCHANGED nonGatewayVars)

\* everything but the calls of the application happens: armed timers fire, a
\* socket that is connecting opens or fails, a socket that is closing closes,
\* and the gateway sends its challenge and answers the connect request
SpecConnLive ==
    /\ Init
    /\ [][Next]_vars
    /\ WF_vars(ReconnectTimerFires /\ UNCHANGED nonGatewayVars)
    /\ \A id \in RequestIds : WF_vars(RequestTimeout(id) /\ UNCHANGED nonGatewayVars)
    /\ \A s \in Sockets :
          /\ WF_vars(DialTimeout(s) /\ UNCHANGED nonGatewayVars)
          /\ WF_vars((SocketOpen(s) \/ SocketError(s)) /\ UNCHANGED nonGatewayVars)
          /\ WF_vars((SocketClose(s) /\ wsState[s] = "closing") /\ UNCHANGED nonGatewayVars)
          /\ WF_vars(RecvChallenge(s) /\ UNCHANGED nonGatewayVars)
          /\ WF_vars((\E m \in ResFrames : RecvConnectRes(s, m)) /\ UNCHANGED nonGatewayVars)

\* ---- nextId called by every GatewayClient of the process ----------------
\* reqCounter is module-level: all clients share it.  Date.now() is the wall
\* clock, which may stand still between two calls and may be adjusted.
otherVars == <<config, ws, wsState, dialTimer, connProm, pending, reqTimers,
               connected, reconnectTimer, timersArmed, reconnectAttempts,
               shouldReconnect, connectResolve, connectReject, connectId,
               outcome, resettled, challenged, lastOp, emitted, sent, settled,
               nonGatewayVars>>

ClockMoves ==
    /\ \E t \in 0..MaxClock : t # now /\ now' = t
    /\ UNCHANGED <<reqCounter, issued>>
    /\ UNCHANGED otherVars

\* const id = nextId() in sendConnect (gateway.ts 130)
NextIdInSendConnect(c) ==
    /\ Len(issued) < MaxIds
    /\ reqCounter' = nextId(reqCounter, now).counter
    /\ issued' = Append(issued, IdRec("sendConnect", c))
    /\ UNCHANGED now
    /\ UNCHANGED otherVars

\* const id = nextId() in request (gateway.ts 226)
NextIdInRequest(c) ==
    /\ Len(issued) < MaxIds
    /\ reqCounter' = nextId(reqCounter, now).counter
    /\ issued' = Append(issued, IdRec("request", c))
    /\ UNCHANGED now
    /\ UNCHANGED otherVars

NextIds ==
    \/ ClockMoves
    \/ \E c \in Clients : NextIdInSendConnect(c)
    \/ \E c \in Clients : NextIdInRequest(c)

SpecIds == Init /\ [][NextIds]_vars

\* ==========================================================================
\* ChatSocket (src/src/store.ts 249-470): the socket to /ws/chat/{gwId} with
\* heartbeat and reconnect.  FederatedChatSocket (store.ts 476-673) is the
\* same code without gwId.  chat.ws is the readyState of the socket this.ws
\* refers to; chat.stale counts the sockets the client closed and dropped
\* whose close event is still to come.  Heartbeat timers are timed in units
\* of 10 s: pingDue is the time to the next interval tick, pong1 and pong0
\* count the pong timeouts armed with 10 s and with nothing left to run.
\* Reconnect timers and the network are untimed.
\* ==========================================================================
PING_INTERVAL == 3

PONG_TIMEOUT == 1

CloseCodes == {"1000", "1005", "1006"}

ChatFrameTypes == {"connected", "stream", "error", "other"}

\* clearTimeout(this.pongTimeout): the handle is the timeout armed last
chatClearPong(c) ==
    IF c.pongTimeout # "live" THEN c
    ELSE IF c.pong1 > 0 THEN [c EXCEPT !.pong1 = @ - 1]
    ELSE [c EXCEPT !.pong0 = @ - 1]

\* ---- stopHeartbeat (store.ts 352-361) -----------------------------------
chatStopHeartbeat(c) ==
    [chatClearPong(c) EXCEPT !.pingInterval = FALSE, !.pingDue = 0,
                             !.pongTimeout = "null"]

\* ---- startHeartbeat (store.ts 335-350): arming the interval -------------
chatStartHeartbeat(c) ==
    [chatStopHeartbeat(c) EXCEPT !.pingInterval = TRUE, !.pingDue = PING_INTERVAL]

\* a backoff that is capped at 60 s
chatBackoffDelayCap60(attempts) == Min(1000 * Pow2(attempts), 60000)

\* Math.min(1000 * Math.pow(2, this.reconnectAttempts), 30000)
chatBackoffDelay(attempts) == Min(1000 * Pow2(attempts), 30000)

\* ---- scheduleReconnect (store.ts 363-384) -------------------------------
\* the object it leaves and the events it emits
chatScheduleReconnect(c) ==
    IF c.reconnectAttempts >= maxReconnectAttempts
    THEN [c |-> [c EXCEPT !.shouldReconnect = FALSE],
          emitted |-> <<Ev("reconnect_failed", 0, 0, "none")>>]
    ELSE [c |-> [c EXCEPT !.reconnectAttempts = @ + 1,
                          !.reconnectTimer = "live",
                          !.timersArmed = @ + 1],
          emitted |-> <<Ev("reconnecting", c.reconnectAttempts + 1,
                           chatBackoffDelay(c.reconnectAttempts), "none")>>]

\* this.ws.close(); this.ws = null: a socket that is not closed yet still
\* delivers its close event
chatDropSocket(c) ==
    [c EXCEPT !.ws = "null",
              !.stale = IF c.ws \in {"connecting", "open", "closing"} THEN @ + 1 ELSE @]

\* ---- _connect (store.ts 270-333): the synchronous part ------------------
chat_connect(c) ==
    IF c.gwId = "null" THEN [c |-> c, emitted |-> <<>>]
    ELSE IF c.urlOk
         THEN [c |-> [chatDropSocket(c) EXCEPT !.ws = "connecting"], emitted |-> <<>>]
         ELSE chatScheduleReconnect(chatDropSocket(c))

\* ---- disconnect (store.ts 453-465) --------------------------------------
chatDisconnect(c) ==
    LET h == chatStopHeartbeat([c EXCEPT !.shouldReconnect = FALSE])
        r == [h EXCEPT !.reconnectTimer = "null",
                       !.timersArmed = IF h.reconnectTimer = "live" THEN @ - 1 ELSE @]
    IN [chatDropSocket(r) EXCEPT !.gwId = "null"]

ChatWithinBounds(c) == c.stale <= MaxStale /\ c.timersArmed <= MaxTimers

ChatStep(c, op, ems, snt) ==
    /\ ChatWithinBounds(c)
    /\ chat' = c
    /\ chatLast' = op
    /\ chatEmitted' = ems
    /\ chatSent' = snt
    /\ UNCHANGED nonChatVars

\* ---- connect(gwId) (store.ts 262-268) -----------------------------------
ChatConnect(g) ==
    LET d == chatDisconnect(chat)
        r == chat_connect([d EXCEPT !.gwId = g, !.shouldReconnect = TRUE,
                                    !.reconnectAttempts = 0])
    IN ChatStep(r.c, ChatOp("connect", "none", chat.ws), r.emitted, <<>>)

ChatDisconnect ==
    ChatStep(chatDisconnect(chat), ChatOp("disconnect", "none", chat.ws), <<>>, <<>>)

\* ---- 'open' listener (store.ts 288-293) ---------------------------------
ChatSocketOpen ==
    /\ chat.ws = "connecting"
    /\ ChatStep(chatStartHeartbeat([chat EXCEPT !.ws = "open", !.reconnectAttempts = 0]),
                ChatOp("open", "none", chat.ws), <<Ev("open", 0, 0, "none")>>, <<>>)

\* ---- 'error' and 'close' listeners (store.ts 318-332) -------------------
\* a failed connection fires 'error' and then 'close' with code 1006
chatCloseHandlers(c, code) ==
    LET h == chatStopHeartbeat(c)
        r == IF h.shouldReconnect /\ code # "1000"
             THEN chatScheduleReconnect(h)
             ELSE [c |-> h, emitted |-> <<>>]
    IN [c |-> r.c,
        emitted |-> (IF code = "1006" THEN <<Ev("error", 0, 0, "WebSocket error")>> ELSE <<>>)
                    \o <<Ev("close", 0, 0, code)>> \o r.emitted]

\* the socket this.ws refers to closes: a dial that fails gives 1006; a
\* socket the client closed (close() without a code) closes with 1005 when
\* the gateway answers the closing handshake and with 1006 when it does not
ChatSocketClose(code) ==
    /\ chat.ws \in {"connecting", "open", "closing"}
    /\ chat.ws = "connecting" => code = "1006"
    /\ chat.ws = "closing" => code # "1000"
    /\ LET r == chatCloseHandlers([chat EXCEPT !.ws = "closed"], code) IN
       ChatStep(r.c, ChatOp("close", code, chat.ws), r.emitted, <<>>)

\* a socket the client closed and dropped delivers its close event
ChatStaleClose(code) ==
    /\ chat.stale > 0
    /\ code # "1000"
    /\ LET r == chatCloseHandlers([chat EXCEPT !.stale = @ - 1], code) IN
       ChatStep(r.c, ChatOp("staleClose", code, chat.ws), r.emitted, <<>>)

\* ---- 'message' listener (store.ts 295-316) ------------------------------
ChatRecvPong ==
    /\ chat.ws = "open"
    /\ ChatStep(IF chat.pongTimeout # "null"
                THEN [chatClearPong(chat) EXCEPT !.pongTimeout = "null"]
                ELSE chat,
                ChatOp("pong", "none", chat.ws), <<>>, <<>>)

ChatRecvFrame(type) ==
    /\ chat.ws = "open"
    /\ ChatStep(chat, ChatOp("frame", type, chat.ws),
                IF type = "other" THEN <<>> ELSE <<Ev(type, 0, 0, "msg")>>, <<>>)

\* ---- the interval callback (store.ts 338-349) ---------------------------
ChatPingTick ==
    /\ chat.pingInterval
    /\ chat.pingDue = 0
    /\ IF chat.ws = "open"
       THEN ChatStep([chat EXCEPT !.pingDue = PING_INTERVAL, !.pongTimeout = "live",
                                  !.pong1 = @ + 1],
                     ChatOp("pingTick", "none", chat.ws), <<>>, <<"ping">>)
       ELSE ChatStep([chat EXCEPT !.pingDue = PING_INTERVAL],
                     ChatOp("pingTick", "none", chat.ws), <<>>, <<>>)

\* ---- the pong timeout callback (store.ts 344-347): this.ws?.close() ------
ChatPongTimeout ==
    /\ chat.pong0 > 0
    /\ \E current \in BOOLEAN :
        LET isHandle == chat.pongTimeout = "live" /\ chat.pong1 = 0 IN
        /\ current => isHandle
        /\ ~current => chat.pong0 > (IF isHandle THEN 1 ELSE 0)
        /\ ChatStep([chat EXCEPT !.pong0 = @ - 1,
                                 !.pongTimeout = IF current THEN "dead" ELSE @,
                                 !.ws = IF @ \in {"connecting", "open"} THEN "closing" ELSE @],
                    ChatOp("pongTimeout", "none", chat.ws), <<>>, <<>>)

\* ---- the reconnect timer callback (store.ts 378-383) --------------------
ChatReconnectTimerFires ==
    /\ chat.timersArmed > 0
    /\ \E current \in BOOLEAN :
        /\ current => chat.reconnectTimer = "live"
        /\ ~current => chat.timersArmed > (IF chat.reconnectTimer = "live" THEN 1 ELSE 0)
        /\ LET f == [chat EXCEPT !.timersArmed = @ - 1,
                                 !.reconnectTimer = IF current THEN "dead" ELSE @]
               r == IF f.shouldReconnect THEN chat_connect(f)
                    ELSE [c |-> f, emitted |-> <<>>]
           IN ChatStep(r.c, ChatOp("reconnectTimer", "none", chat.ws), r.emitted, <<>>)

\* ---- 10 s pass: no timer that is due is left waiting --------------------
ChatTimePasses ==
    /\ chat.pong0 = 0
    /\ chat.pingInterval => chat.pingDue > 0
    /\ chat.pingInterval \/ chat.pong1 > 0
    /\ ChatStep([chat EXCEPT !.pong0 = chat.pong1, !.pong1 = 0,
                             !.pingDue = IF chat.pingInterval THEN @ - 1 ELSE @],
                ChatOp("timePasses", "none", chat.ws), <<>>, <<>>)

NextChat ==
    \/ \E g \in Clients : ChatConnect(g)
    \/ ChatDisconnect
    \/ ChatSocketOpen
    \/ \E code \in CloseCodes : ChatSocketClose(code)
    \/ \E code \in CloseCodes : ChatStaleClose(code)
    \/ ChatRecvPong
    \/ \E type \in ChatFrameTypes : ChatRecvFrame(type)
    \/ ChatPingTick
    \/ ChatPongTimeout
    \/ ChatReconnectTimerFires
    \/ ChatTimePasses

InitChatSpec ==
    /\ InitGateway
    /\ InitRecon
    /\ config.urlOk
    /\ InitEmit
    /\ InitSec
    /\ InitFed
    /\ chat \in {InitChatSocket(u) : u \in BOOLEAN}
    /\ chatLast = ChatOp("init", "none", "null")
    /\ chatEmitted = <<>>
    /\ chatSent = <<>>
    /\ InitText
    /\ InitHook

SpecChat == InitChatSpec /\ [][NextChat]_vars

\* ==========================================================================
\* stripThinking (src/unnamed/part_003 960-964) and the final branch of the
\* stream handler of useGateways that stores its result (part_003 436-455).
\* A text is a sequence of tokens: the characters '<', '>', '/', ':' and
\* white space one by one, and every maximal run of letters or digits either
\* as one token or as several adjacent ones.
\* ==========================================================================
NonWordTokens == {"<", ">", "/", " ", "\n", ":"}

\* \s
IsSpace(c) == c \in {" ", "\n"}

\* \w
IsWord(c) == c \notin NonWordTokens

\* the i flag: letters compare without case
LowerCase(c) ==
    CASE c = "Think" -> "think"
      [] c = "THINKING" -> "thinking"
      [] c = "Thought" -> "thought"
      [] c = "antThinking" -> "antthinking"
      [] OTHER -> c

\* think(?:ing)?|thought|antthinking
TagNames == {"think", "thinking", "thought", "antthinking"}

RECURSIVE Flatten(_)
Flatten(s) == IF s = <<>> THEN "" ELSE Head(s) \o Flatten(Tail(s))

\* \s* from position i: the position after the white space
RECURSIVE SkipSpaces(_, _)
SkipSpaces(s, i) ==
    IF i <= Len(s) /\ IsSpace(s[i]) THEN SkipSpaces(s, i + 1) ELSE i

\* the position after the run of word characters that starts at i
RECURSIVE WordEnd(_, _)
WordEnd(s, i) ==
    IF i <= Len(s) /\ IsWord(s[i]) THEN WordEnd(s, i + 1) ELSE i

\* the word characters from i up to, not including, j, in lower case
RECURSIVE RunText(_, _, _)
RunText(s, i, j) ==
    IF i >= j THEN "" ELSE LowerCase(s[i]) \o RunText(s, i + 1, j)

\* [^>]*> from position i: the position of the first '>', 0 if there is none
RECURSIVE FirstGt(_, _)
FirstGt(s, i) ==
    IF i > Len(s) THEN 0
    ELSE IF s[i] = ">" THEN i ELSE FirstGt(s, i + 1)

\* /<\s*\/?(?:think(?:ing)?|thought|antthinking)\b[^>]*>/i anchored at i: the
\* position of the '>' that ends the match, 0 if there is no match at i.  \b
\* after the name holds only at the end of the run of word characters.
TagEnd(s, i) ==
    IF s[i] # "<" THEN 0
    ELSE LET a == SkipSpaces(s, i + 1)
             b == IF a <= Len(s) /\ s[a] = "/" THEN a + 1 ELSE a
             e == WordEnd(s, b)
         IN IF e > b /\ RunText(s, b, e) \in TagNames THEN FirstGt(s, e) ELSE 0

\* a replacement by one blank
replacementBlank == <<" ">>

\* the second argument of replace: ''
replacement == <<>>

\* String.replace with the g flag: matches are taken left to right and do not
\* overlap; the result is not searched again
RECURSIVE replaceAll(_, _)
replaceAll(s, i) ==
    IF i > Len(s) THEN <<>>
    ELSE IF TagEnd(s, i) > 0
         THEN replacement \o replaceAll(s, TagEnd(s, i) + 1)
         ELSE <<s[i]>> \o replaceAll(s, i + 1)

\* String.trim
RECURSIVE trim(_)
trim(s) ==
    IF s = <<>> THEN s
    ELSE IF IsSpace(s[1]) THEN trim(Tail(s))
    ELSE IF IsSpace(s[Len(s)]) THEN trim(SubSeq(s, 1, Len(s) - 1))
    ELSE s

stripThinking(s) == trim(replaceAll(s, 1))

TextAlphabet == {"<", ">", "/", " ", "Think", "x"}

RECURSIVE TextsUpTo(_)
TextsUpTo(n) ==
    IF n = 0 THEN {<<>>}
    ELSE LET shorter == TextsUpTo(n - 1) IN
         shorter \cup {Append(s, c) : s \in {u \in shorter : Len(u) = n - 1},
                                      c \in TextAlphabet}

\* '<think>deliberating</think>Answer: 42'
ThinkingStripScenario ==
    <<"<", "think", ">", "deliberating", "<", "/", "think", ">",
      "Answer", ":", " ", "42">>

\* longer texts: every family, attributes, upper case, names that only start
\* like a family
TextScenarios ==
    { ThinkingStripScenario,
      <<" ", "<", "THINKING", ">", "a", " ", "b", "<", "/", "THINKING", ">", "\n">>,
      <<"<", "Thought", " ", "x", ">", "a", "<", "/", "Thought", ">", "b">>,
      <<"<", "antThinking", ">", "a", "<", " ", "/", "antThinking", ">">>,
      <<"<", "think", "ing", ">", "a", "<", "/", "think", "er", ">">>,
      <<"a", "<", "b", ">", "c", " ", "<", "/", " ", "think", ">">> }

FinalTexts == TextsUpTo(MaxText) \cup TextScenarios

\* ---- stream handler, state 'final' (part_003 436-455) -------------------
\* if (text) { const cleaned = stripThinking(text); if (cleaned) store it }
FinalStored ==
    /\ textPc = "input"
    /\ cleaned' = (IF text # <<>> THEN stripThinking(text) ELSE <<>>)
    /\ storedText' = (IF text # <<>> /\ stripThinking(text) # <<>>
                      THEN Append(storedText, stripThinking(text))
                      ELSE storedText)
    /\ textPc' = "final"
    /\ UNCHANGED <<text, twice>>
    /\ UNCHANGED nonTextVars

\* the filter applied to its own result
FilteredAgain ==
    /\ textPc = "final"
    /\ twice' = stripThinking(cleaned)
    /\ textPc' = "again"
    /\ UNCHANGED <<text, cleaned, storedText>>
    /\ UNCHANGED nonTextVars

NextText ==
    \/ FinalStored
    \/ FilteredAgain

InitTextSpec ==
    /\ InitGateway
    /\ InitRecon
    /\ config.urlOk
    /\ InitEmit
    /\ InitSec
    /\ InitFed
    /\ InitChat
    /\ text \in FinalTexts
    /\ cleaned = <<>>
    /\ storedText = <<>>
    /\ twice = <<>>
    /\ textPc = "input"
    /\ InitHook

SpecText == InitTextSpec /\ [][NextText]_vars

\* ==========================================================================
\* useGateways (src/unnamed/part_003 274-946): the active gateway and
\* session, the message lists keyed "gatewayId|sessionKey", sending a turn,
\* the stream handler of each gateway's socket and the history fetches.  The
\* backend stores the user message of a turn when it receives it and the
\* assistant message when the turn's final arrives from upstream.  Every
\* message carries the key of the turn it belongs to (origin) and the number
\* of that turn.
\* ==========================================================================
Msg(role, origin, n) == [role |-> role, origin |-> origin, n |-> n]

Turn(gw, key, n) == [gw |-> gw, key |-> key, n |-> n]

Fetch(gw, key, answered, response, by) ==
    [gw |-> gw, key |-> key, answered |-> answered, response |-> response,
     by |-> by]

\* next.set(key, [...(next.get(key) || []), message])
appendMessage(lists, key, m) == [lists EXCEPT ![key] = Append(@, m)]

\* the key under which the final handler files the message: the socket's
\* gateway and the session that is active when the final arrives
finalStorageKey(gwId, currentSessionKey) == getSessionKey(gwId, currentSessionKey)

\* ---- ChatSocket.connected (store.ts 467-469) and the test in send
\* (store.ts 387-389), as functions of this.ws?.readyState ------------------
ReadyStates == {"null", "connecting", "open", "closed"}

socketConnected(readyState) == readyState = "open"

sendThrows(readyState) == readyState # "open"

\* sessionMessages.slice(0, -1)
sliceLast(list) == SubSeq(list, 1, Len(list) - 1)

\* a refusal that reports nothing
NotConnectedErrorNone == "null"

\* setError('Not connected to gateway. Please wait for connection or reconnect.')
NotConnectedError == "Not connected to gateway"

\* ---- sendMessage (part_003 655-711) -------------------------------------
\* readyState is that of the socket of the active gateway's ChatSocket
SendMessage(readyState) ==
    /\ turnsSent < MaxTurns
    /\ hookLast' = HookOp("sendMessage", activeGatewayId, activeSessionKey)
    /\ IF streaming \/ activeGatewayId = "null"
       THEN UNCHANGED <<activeGatewayId, activeSessionKey, streaming,
                        messagesBySession, inflight, persisted, fetches, turnsSent,
                        hookError>>
       ELSE IF ~socketConnected(readyState)
       THEN /\ hookError' = NotConnectedError
            /\ UNCHANGED <<activeGatewayId, activeSessionKey, streaming,
                           messagesBySession, inflight, persisted, fetches, turnsSent>>
       ELSE LET key == getSessionKey(activeGatewayId, activeSessionKey)
                n == turnsSent + 1
                appended == appendMessage(messagesBySession, key, Msg("user", key, n))
            IN
            IF sendThrows(readyState)
            THEN /\ hookError' = "Failed to send message"
                 /\ streaming' = FALSE
                 /\ messagesBySession' = [appended EXCEPT ![key] = sliceLast(@)]
                 /\ UNCHANGED <<activeGatewayId, activeSessionKey, inflight,
                                persisted, fetches, turnsSent>>
            ELSE /\ messagesBySession' = appended
                 /\ streaming' = TRUE
                 /\ hookError' = "null"
                 /\ inflight' = inflight \cup {Turn(activeGatewayId, activeSessionKey, n)}
                 /\ persisted' = appendMessage(persisted, key, Msg("user", key, n))
                 /\ turnsSent' = n
                 /\ UNCHANGED <<activeGatewayId, activeSessionKey, fetches>>
    /\ UNCHANGED <<switchingRef, listFetches>>
    /\ UNCHANGED nonHookVars

\* ---- loadHistory (part_003 541-575): the request ------------------------
\* by: the caller that awaits it, "switch" (switchSession) or "poll"
loadHistoryStarts(fs, gw, key, by) ==
    IF gw = "null" THEN fs ELSE fs \cup {Fetch(gw, key, FALSE, <<>>, by)}

\* ---- switchSession (part_003 819-845) -----------------------------------
SwitchSession(key) ==
    /\ key # activeSessionKey
    /\ activeSessionKey' = key
    /\ streaming' = FALSE
    /\ fetches' = loadHistoryStarts(fetches, activeGatewayId, key, "switch")
    /\ Cardinality(fetches') <= MaxFetches
    /\ switchingRef' = (activeGatewayId # "null")
    /\ hookLast' = HookOp("switchSession", activeGatewayId, key)
    /\ UNCHANGED <<activeGatewayId, messagesBySession, inflight, persisted, turnsSent,
                   listFetches>>
    /\ UNCHANGED hookError
    /\ UNCHANGED nonHookVars

\* ---- switchGateway (part_003 616-652) -----------------------------------
SwitchGateway(gw) ==
    /\ gw # activeGatewayId
    /\ activeGatewayId' = gw
    /\ streaming' = FALSE
    /\ switchingRef' = TRUE
    /\ listFetches < MaxListFetches
    /\ listFetches' = listFetches + 1
    /\ hookLast' = HookOp("switchGateway", gw, activeSessionKey)
    /\ UNCHANGED <<activeSessionKey, messagesBySession, inflight, persisted,
                   fetches, turnsSent>>
    /\ UNCHANGED hookError
    /\ UNCHANGED nonHookVars

\* ---- switchGateway after await apiListSessions (part_003 641-651) --------
SessionsListed ==
    /\ listFetches > 0
    /\ listFetches' = listFetches - 1
    /\ switchingRef' = FALSE
    /\ hookLast' = HookOp("sessionsListed", activeGatewayId, activeSessionKey)
    /\ UNCHANGED <<activeGatewayId, activeSessionKey, streaming, messagesBySession,
                   inflight, persisted, fetches, turnsSent>>
    /\ UNCHANGED hookError
    /\ UNCHANGED nonHookVars

\* ---- the 5 s poll (part_003 605-613) ------------------------------------
PollHistory ==
    /\ activeGatewayId # "null"
    /\ ~switchingRef
    /\ ~streaming
    /\ fetches' = loadHistoryStarts(fetches, activeGatewayId, activeSessionKey, "poll")
    /\ Cardinality(fetches') <= MaxFetches
    /\ hookLast' = HookOp("poll", activeGatewayId, activeSessionKey)
    /\ UNCHANGED <<activeGatewayId, activeSessionKey, streaming, messagesBySession,
                   inflight, persisted, turnsSent>>
    /\ UNCHANGED <<switchingRef, listFetches>>
    /\ UNCHANGED hookError
    /\ UNCHANGED nonHookVars

\* the backend answers a history request with what it has stored
BackendAnswersHistory(f) ==
    /\ f \in fetches
    /\ ~f.answered
    /\ fetches' = (fetches \ {f}) \cup {Fetch(f.gw, f.key, TRUE, persisted[getSessionKey(f.gw, f.key)], f.by)}
    /\ hookLast' = HookOp("backendHistory", f.gw, f.key)
    /\ UNCHANGED <<activeGatewayId, activeSessionKey, streaming, messagesBySession,
                   inflight, persisted, turnsSent>>
    /\ UNCHANGED <<switchingRef, listFetches>>
    /\ UNCHANGED hookError
    /\ UNCHANGED nonHookVars

\* ---- loadHistory: the response (part_003 553-566) -----------------------
HistoryLoaded(f) ==
    /\ f \in fetches
    /\ f.answered
    /\ fetches' = fetches \ {f}
    /\ messagesBySession' = [messagesBySession EXCEPT ![getSessionKey(f.gw, f.key)] = f.response]
    /\ switchingRef' = IF f.by = "switch" THEN FALSE ELSE switchingRef
    /\ hookLast' = HookOp("historyLoaded", f.gw, f.key)
    /\ UNCHANGED <<activeGatewayId, activeSessionKey, streaming, inflight,
                   persisted, turnsSent, listFetches>>
    /\ UNCHANGED hookError
    /\ UNCHANGED nonHookVars

\* ---- stream handler, state 'final' (part_003 428-491) -------------------
\* the final of turn t arrives on the socket of gateway t.gw; hasText: the
\* text is non-empty and so is stripThinking(text)
StreamFinal(t, hasText) ==
    /\ t \in inflight
    /\ inflight' = inflight \ {t}
    /\ persisted' = IF hasText
                    THEN appendMessage(persisted, getSessionKey(t.gw, t.key),
                                       Msg("assistant", getSessionKey(t.gw, t.key), t.n))
                    ELSE persisted
    /\ messagesBySession' =
          IF hasText
          THEN appendMessage(messagesBySession, finalStorageKey(t.gw, activeSessionKey),
                             Msg("assistant", getSessionKey(t.gw, t.key), t.n))
          ELSE messagesBySession
    /\ streaming' = FALSE
    /\ hookLast' = HookOp("final", t.gw, t.key)
    /\ UNCHANGED <<activeGatewayId, activeSessionKey, fetches, turnsSent>>
    /\ UNCHANGED <<switchingRef, listFetches>>
    /\ UNCHANGED hookError
    /\ UNCHANGED nonHookVars

\* ---- stream handler, state 'error' (part_003 492-503) -------------------
StreamError(t) ==
    /\ t \in inflight
    /\ inflight' = inflight \ {t}
    /\ streaming' = FALSE
    /\ hookError' = "Stream error"
    /\ hookLast' = HookOp("error", t.gw, t.key)
    /\ UNCHANGED <<activeGatewayId, activeSessionKey, messagesBySession,
                   persisted, fetches, turnsSent>>
    /\ UNCHANGED <<switchingRef, listFetches>>
    /\ UNCHANGED nonHookVars

\* ---- abortRun (part_003 714-724) ----------------------------------------
\* readyState is that of the socket of the active gateway's ChatSocket; the
\* turn stays in flight: its final or error may still arrive
AbortRun(readyState) ==
    /\ streaming
    /\ hookLast' = HookOp("abortRun", activeGatewayId, activeSessionKey)
    /\ streaming' = (IF activeGatewayId = "null" \/ ~socketConnected(readyState)
                     THEN streaming
                     ELSE FALSE)
    /\ UNCHANGED <<activeGatewayId, activeSessionKey, messagesBySession, inflight,
                   persisted, fetches, turnsSent, switchingRef, listFetches,
                   hookError>>
    /\ UNCHANGED nonHookVars

\* ---- close handler (part_003 505-517) -----------------------------------
\* the socket of gateway t.gw closes before the final or error of turn t has
\* been received: the handler marks the gateway disconnected and touches
\* nothing else; the frames that end the turn are sent while the socket is
\* down and are not received (hasText: the backend has stored an answer)
SocketClosed(t, hasText) ==
    /\ t \in inflight
    /\ inflight' = inflight \ {t}
    /\ persisted' = IF hasText
                    THEN appendMessage(persisted, getSessionKey(t.gw, t.key),
                                       Msg("assistant", getSessionKey(t.gw, t.key), t.n))
                    ELSE persisted
    /\ hookLast' = HookOp("close", t.gw, t.key)
    /\ UNCHANGED <<activeGatewayId, activeSessionKey, streaming, messagesBySession,
                   fetches, turnsSent, switchingRef, listFetches, hookError>>
    /\ UNCHANGED nonHookVars

NextHook ==
    \/ \E readyState \in ReadyStates : SendMessage(readyState)
    \/ \E key \in SessionKeys : SwitchSession(key)
    \/ \E gw \in Gateways : SwitchGateway(gw)
    \/ PollHistory
    \/ SessionsListed
    \/ \E f \in fetches : BackendAnswersHistory(f)
    \/ \E f \in fetches : HistoryLoaded(f)
    \/ \E t \in inflight, hasText \in BOOLEAN : StreamFinal(t, hasText)
    \/ \E t \in inflight : StreamError(t)
    \/ \E readyState \in ReadyStates : AbortRun(readyState)
    \/ \E t \in inflight, hasText \in BOOLEAN : SocketClosed(t, hasText)

InitHookSpec ==
    /\ InitGateway
    /\ InitRecon
    /\ config.urlOk
    /\ InitEmit
    /\ InitSec
    /\ InitFed
    /\ InitChat
    /\ InitText
    /\ \E gw \in Gateways \cup {"null"}, key \in SessionKeys : InitHookState(gw, key)

SpecHook == InitHookSpec /\ [][NextHook]_vars

\* the backend ends every turn it has accepted, answers every history request
\* and session listing, and the 5 s poll timer fires; the user's calls and a
\* socket failure are not forced
SpecHookLive ==
    /\ InitHookSpec
    /\ [][NextHook]_vars
    /\ WF_vars(\E t \in inflight : StreamFinal(t, TRUE) \/ StreamFinal(t, FALSE) \/ StreamError(t))
    /\ WF_vars(\E f \in fetches : BackendAnswersHistory(f))
    /\ WF_vars(\E f \in fetches : HistoryLoaded(f))
    /\ WF_vars(SessionsListed)
    /\ WF_vars(PollHistory)

\* ==========================================================================
\* useFederatedChat (src/unnamed/part_003 27-250)
\* ==========================================================================
FedDeltaTexts == {"", "a", "b"}

FedFinalTexts == {"", "z"}

StreamErrors == {"", "e1"}

FedMsg(role, txt, source, turn, session) ==
    [role |-> role, text |-> txt, source |-> source, turn |-> turn,
     session |-> session]

NoStreamingMessages == [k \in {} |-> ""]

\* a reset that leaves the ref of streaming sources as it was
clearStreamingKeepsRef(f) ==
    [f EXCEPT !.streamingMessages = NoStreamingMessages, !.streaming = FALSE]

\* setStreamingMessages(new Map()); setStreaming(false);
\* streamingSourcesRef.current.clear()
clearStreaming(f) ==
    [f EXCEPT !.streamingMessages = NoStreamingMessages, !.streaming = FALSE,
              !.streamingSources = {}]

\* a map that keeps only the last delta of a source
mapSetOverwrite(m, key, txt) ==
    [k \in DOMAIN m \cup {key} |-> IF k = key THEN txt ELSE m[k]]

\* updated.set(sourceKey, (updated.get(sourceKey) || '') + txt)
mapSet(m, key, txt) ==
    [k \in DOMAIN m \cup {key} |->
        IF k = key THEN (IF key \in DOMAIN m THEN m[key] ELSE "") \o txt ELSE m[k]]

\* a delete that empties the map
mapDeleteAll(m, key) == [k \in {} |-> ""]

\* updated.delete(sourceKey)
mapDelete(m, key) == [k \in DOMAIN m \ {key} |-> m[k]]

FedStep(f) ==
    /\ fed' = f
    /\ UNCHANGED nonFedVars

\* ---- createSession (part_003 146-161), once the backend has answered ----
FedCreateSession ==
    /\ fedSessionCount < MaxFedSessions
    /\ LET id == fedSessionCount + 1 IN
       /\ fedSessionCount' = id
       /\ fedTurn' = 0
       /\ FedStep([clearStreaming(fed) EXCEPT
                      !.federatedSessions = @ \cup {id},
                      !.activeFederatedSession = id,
                      !.messages = <<>>,
                      !.error = "null"])
    /\ UNCHANGED <<fedTurns, fedRuns>>

\* ---- switchSession (part_003 164-175) -----------------------------------
FedSwitchSession(id) ==
    /\ IF id \in fed.federatedSessions
       THEN /\ fedTurn' = 0
            /\ FedStep([clearStreaming(fed) EXCEPT
                           !.activeFederatedSession = id,
                           !.messages = <<>>,
                           !.error = "null"])
       ELSE /\ fedTurn' = fedTurn
            /\ FedStep(fed)
    /\ UNCHANGED <<fedSessionCount, fedTurns, fedRuns>>

\* ---- deleteSession (part_003 178-194), once the backend has answered ----
FedDeleteSession(id) ==
    /\ id \in fed.federatedSessions
    /\ LET f == [fed EXCEPT !.federatedSessions = @ \ {id}] IN
       IF fed.activeFederatedSession = id
       THEN /\ fedTurn' = 0
            /\ FedStep([clearStreaming(f) EXCEPT
                           !.activeFederatedSession = 0,
                           !.messages = <<>>])
       ELSE /\ fedTurn' = fedTurn
            /\ FedStep(f)
    /\ UNCHANGED <<fedSessionCount, fedTurns, fedRuns>>

\* ---- sendMessage (part_003 197-217); socket.send throws unless the
\* socket is open (store.ts 610-621) ---------------------------------------
FedSendMessage ==
    /\ Len(fedTurns) < MaxFedTurns
    /\ Len(SelectSeq(fed.messages, LAMBDA m : m.role = "user")) < MaxFedTurns
    /\ IF fed.activeFederatedSession = 0
       THEN /\ UNCHANGED <<fedTurns, fedTurn>>
            /\ FedStep(fed)
       ELSE LET n == Len(fedTurns) + 1
                sent1 == [fed EXCEPT !.messages =
                            Append(@, FedMsg("user", "hi", NoSource,
                                             IF fed.connected THEN n ELSE 0,
                                             fed.activeFederatedSession))]
            IN
            IF fed.connected
            THEN /\ fedTurns' = Append(fedTurns, fed.activeFederatedSession)
                 /\ fedTurn' = n
                 /\ FedStep([sent1 EXCEPT !.error = "null"])
            ELSE /\ UNCHANGED <<fedTurns, fedTurn>>
                 /\ FedStep([sent1 EXCEPT !.error = "Failed to send message"])
    /\ UNCHANGED <<fedSessionCount, fedRuns>>

\* ---- abortRun (part_003 220-232) ----------------------------------------
FedAbortRun ==
    /\ IF fed.activeFederatedSession = 0
       THEN /\ fedTurn' = fedTurn
            /\ FedStep(fed)
       ELSE /\ fedTurn' = 0
            /\ FedStep(clearStreaming(fed))
    /\ UNCHANGED <<fedSessionCount, fedTurns, fedRuns>>

\* ---- socket.on('stream') (part_003 50-106) ------------------------------
\* the handler, given the fields it reads from the message
streamHandler(f, source, state, txt, streamError, turn) ==
    LET key == sourceKey(source) IN
    IF state = "delta" /\ txt # ""
    THEN [f EXCEPT !.streamingMessages = mapSet(@, key, txt),
                   !.streamingSources = @ \cup {key},
                   !.streaming = TRUE]
    ELSE IF state = "final"
    THEN [f EXCEPT !.messages = Append(@, FedMsg("assistant", txt,
                                   [gateway_id |-> source.gateway_id,
                                    agent_name |-> source.agent_name],
                                   turn, fedTurns[turn])),
                   !.streamingMessages = mapDelete(@, key),
                   !.streamingSources = @ \ {key},
                   !.streaming = IF f.streamingSources \ {key} = {} THEN FALSE ELSE @]
    ELSE IF state = "error"
    THEN [f EXCEPT !.error = IF streamError = "" THEN "Stream error" ELSE streamError,
                   !.streamingMessages = mapDelete(@, key),
                   !.streamingSources = @ \ {key},
                   !.streaming = IF f.streamingSources \ {key} = {} THEN FALSE ELSE @]
    ELSE f

\* a source emits the next event of its stream for a turn: deltas, then one
\* final or error; the open socket delivers it to the handler
FedStream(turn, source, state, txt, streamError) ==
    /\ fed.connected
    /\ turn \in 1..Len(fedTurns)
    /\ fedRuns[turn][source].state \in {"idle", "streaming"}
    /\ state = "delta" => fedRuns[turn][source].deltas < MaxDeltas
    /\ fedRuns' = [fedRuns EXCEPT ![turn][source] =
                      IF state = "delta"
                      THEN FedRun(IF txt # "" THEN "streaming" ELSE @.state,
                                  @.deltas + 1, @.text \o txt)
                      ELSE FedRun(state, @.deltas, @.text)]
    /\ FedStep(streamHandler(fed, source, state, txt, streamError, turn))
    /\ UNCHANGED <<fedSessionCount, fedTurns, fedTurn>>

FedStreamEvents ==
    \/ \E turn \in FedTurnIds, source \in FedSources, txt \in FedDeltaTexts :
          FedStream(turn, source, "delta", txt, "")
    \/ \E turn \in FedTurnIds, source \in FedSources, txt \in FedFinalTexts :
          FedStream(turn, source, "final", txt, "")
    \/ \E turn \in FedTurnIds, source \in FedSources, e \in StreamErrors :
          FedStream(turn, source, "error", "", e)

\* ---- the socket of the hook (part_003 44-48, 117-120; store.ts 512-547) --
FedSocketConnected ==
    /\ ~fed.connected
    /\ FedStep([fed EXCEPT !.connected = TRUE, !.error = "null"])
    /\ UNCHANGED <<fedSessionCount, fedTurns, fedTurn, fedRuns>>

FedSocketClose ==
    /\ fed.connected
    /\ FedStep([fed EXCEPT !.connected = FALSE])
    /\ UNCHANGED <<fedSessionCount, fedTurns, fedTurn, fedRuns>>

NextFed ==
    \/ FedCreateSession
    \/ \E id \in FedSessionIds : FedSwitchSession(id)
    \/ \E id \in FedSessionIds : FedDeleteSession(id)
    \/ FedSendMessage
    \/ FedAbortRun
    \/ FedStreamEvents
    \/ FedSocketConnected
    \/ FedSocketClose

InitFedSpec ==
    /\ InitGateway
    /\ InitRecon
    /\ config.urlOk
    /\ InitEmit
    /\ InitSec
    /\ InitChat
    /\ InitText
    /\ InitHook
    /\ InitFed

SpecFed == InitFedSpec /\ [][NextFed]_vars

\* ==========================================================================
\* on / off / emit (gateway.ts 242-262; the same code in store.ts 427-451
\* and 634-658), for the handlers of one event name
\* ==========================================================================
\* what a handler does when it is invoked: return, throw, or call off()
HandlerBehaviours ==
    [kind : {"return", "throw"}, target : {"none"}]
    \cup [kind : {"off"}, target : Handlers]

\* handlers.indexOf(handler): 1-based, 0 if absent
RECURSIVE indexOfFrom(_, _, _)
indexOfFrom(arr, h, i) ==
    IF i > Len(arr) THEN 0
    ELSE IF arr[i] = h THEN i
    ELSE indexOfFrom(arr, h, i + 1)

indexOf(arr, h) == indexOfFrom(arr, h, 1)

\* handlers.splice(idx, 1)
splice(arr, idx) == SubSeq(arr, 1, idx - 1) \o SubSeq(arr, idx + 1, Len(arr))

\* off (gateway.ts 250-256)
off(arr, h) == IF indexOf(arr, h) > 0 THEN splice(arr, indexOf(arr, h)) ELSE arr

\* Array.prototype.forEach over the live array: index k is visited while it
\* is below the length read at the start and still present in the array;
\* each call is wrapped in try/catch, so a throw does not end the loop
RECURSIVE forEach(_, _, _, _, _, _)
forEach(arr, k, len, delivered, ev, does) ==
    IF k > len \/ k > Len(arr)
    THEN [handlers |-> arr, delivered |-> delivered]
    ELSE LET h == arr[k] IN
         forEach(IF does[h].kind = "off" THEN off(arr, does[h].target) ELSE arr,
                 k + 1, len,
                 [delivered EXCEPT ![h] = Append(@, ev)],
                 ev, does)

\* emit (gateway.ts 258-262)
emit(arr, delivered, ev, does) == forEach(arr, 1, Len(arr), delivered, ev, does)

\* ---- on (gateway.ts 242-248) --------------------------------------------
On(h) ==
    /\ Len(eventHandlers) < MaxHandlers
    /\ eventHandlers' = Append(eventHandlers, h)
    /\ UNCHANGED <<evReceived, evDelivered, evOwed>>
    /\ UNCHANGED nonEmitVars

\* ---- off, called between two dispatches ---------------------------------
Off(h) ==
    /\ eventHandlers' = off(eventHandlers, h)
    /\ UNCHANGED <<evReceived, evDelivered, evOwed>>
    /\ UNCHANGED nonEmitVars

\* ---- an event frame of the name is received and dispatched --------------
Subscriptions(arr, h) == Cardinality({i \in 1..Len(arr) : arr[i] = h})

RECURSIVE Repeat(_, _)
Repeat(ev, n) == IF n = 0 THEN <<>> ELSE <<ev>> \o Repeat(ev, n - 1)

Dispatch(does) ==
    /\ evReceived < MaxEvents
    /\ LET ev == evReceived + 1
           r == emit(eventHandlers, evDelivered, ev, does)
       IN
       /\ evReceived' = ev
       /\ eventHandlers' = r.handlers
       /\ evDelivered' = r.delivered
       /\ evOwed' = [h \in Handlers |->
                        evOwed[h] \o Repeat(ev, Subscriptions(eventHandlers, h))]
    /\ UNCHANGED nonEmitVars

NextEmit ==
    \/ \E h \in Handlers : On(h)
    \/ \E h \in Handlers : Off(h)
    \/ \E does \in [Handlers -> HandlerBehaviours] : Dispatch(does)

InitEmitSpec ==
    /\ InitGateway
    /\ InitRecon
    /\ config.urlOk
    /\ InitChat
    /\ InitText
    /\ InitHook
    /\ InitFed
    /\ InitEmit
    /\ InitSec

SpecEmit == InitEmitSpec /\ [][NextEmit]_vars

\* ==========================================================================
\* Credentials of a gateway config: sendConnect, the console lines of
\* GatewayClient (gateway.ts 125-196) and loadGatewaysFromBackend
\* (part_003 322-364), run by two clients that get the same inputs
\* ==========================================================================
Tokens == {"", "t1", "t2"}

Passwords == {"", "pw1", "pw2"}

\* auth of sendConnect (gateway.ts 126-128, 137): a field is set when its
\* credential is truthy; an empty object becomes undefined
authBlock(cfg) ==
    IF cfg.token = "" /\ cfg.password = "" THEN <<>>
    ELSE IF cfg.password = "" THEN <<"token", cfg.token>>
    ELSE IF cfg.token = "" THEN <<"password", cfg.password>>
    ELSE <<"token", cfg.token, "password", cfg.password>>

\* the connect request (gateway.ts 133-156)
connectRequest(cfg, id) ==
    [type |-> "req", id |-> id, method |-> "connect", auth |-> authBlock(cfg),
     role |-> "operator", client |-> "openclaw-control-ui"]

\* a console line that prints the credentials with the request
sendConnectLogWithAuth(cfg, id) ==
    <<"GW", cfg.name, "Sending connect request", id, cfg.token, cfg.password>>

\* console.log of sendConnect (gateway.ts 161)
sendConnectLog(cfg, id) == <<"GW", cfg.name, "Sending connect request", id>>

\* console.log of handleMessage (gateway.ts 169):
\* msg.type, msg.event || msg.id || '', msg.payload?.type || msg.ok || ''
receivedLog(cfg, m) ==
    <<"GW", cfg.name, "Received", m.type,
      IF m.event # "none" THEN m.event ELSE IF m.id # "none" THEN m.id ELSE "",
      IF m.ok = "true" THEN "true" ELSE "">>

SecFrames ==
    {ChallengeFrame}
    \cup [type : {"res"}, event : {"none"}, id : {"r1_0", "bogus"},
          ok : {"true", "false"}, error : {"none", "e1"}, payload : {"p1"}]
    \cup [type : {"event"}, event : {"chat"}, id : {"none"}, ok : {"none"},
          error : {"none"}, payload : {"p1"}]

\* handleMessage (gateway.ts 165-220) of one client, with sendConnect
secHandleMessage(run, m) ==
    LET cfg == run.config
        logged == [run EXCEPT !.log = Append(@, receivedLog(cfg, m))]
    IN
    IF m.type = "event" /\ m.event = "connect.challenge"
    THEN LET id == nextId(run.reqCounter, 0).id IN
         [logged EXCEPT
            !.log = @ \o <<<<"GW", cfg.name, "Got challenge">>, sendConnectLog(cfg, id)>>,
            !.reqCounter = nextId(run.reqCounter, 0).counter,
            !.connectId = id,
            !.frames = Append(@, connectRequest(cfg, id))]
    ELSE IF m.type = "res" /\ run.connectId # "null" /\ m.id = run.connectId
    THEN IF m.ok # "false" /\ m.error = "none"
         THEN [logged EXCEPT
                 !.connectId = "null",
                 !.connected = TRUE,
                 !.log = Append(@, <<"GW", cfg.name, "Connected", m.payload>>),
                 !.events = Append(@, <<"connected", m.payload>>)]
         ELSE [logged EXCEPT
                 !.connectId = "null",
                 !.log = Append(@, <<"GW", cfg.name, "Connect failed",
                                     IF m.error = "none" THEN "Connect rejected"
                                     ELSE m.error>>)]
    ELSE IF m.type = "event"
    THEN [logged EXCEPT
            !.events = @ \o <<<<"event", m.event>>>>
                         \o (IF m.event = "chat" THEN <<<<"chat.stream", m.event>>>>
                             ELSE <<>>)]
    ELSE logged

\* loadGatewaysFromBackend (part_003 322-364): the backend's entry has id,
\* name and url; the browser's gateway config is built from those fields
secLoadGateways(run, bg) ==
    [run EXCEPT !.log = Append(@, <<"useGateways", "Loaded gateways", bg.id, bg.name, bg.url>>),
                !.gateways = Append(@, [id |-> bg.id, name |-> bg.name, url |-> bg.url])]

\* ---- the same frame is delivered to both clients -------------------------
SecRecv(m) ==
    /\ secSteps < MaxSecSteps
    /\ secSteps' = secSteps + 1
    /\ secRuns' = [r \in {1, 2} |-> secHandleMessage(secRuns[r], m)]
    /\ UNCHANGED nonSecVars

\* ---- both browsers load the gateway list ---------------------------------
SecLoadGateways ==
    /\ secSteps < MaxSecSteps
    /\ secSteps' = secSteps + 1
    /\ secRuns' = [r \in {1, 2} |->
                     secLoadGateways(secRuns[r],
                                     [id |-> secRuns[r].config.id,
                                      name |-> secRuns[r].config.name,
                                      url |-> secRuns[r].config.url])]
    /\ UNCHANGED nonSecVars

NextSec ==
    \/ \E m \in SecFrames : SecRecv(m)
    \/ SecLoadGateways

\* the two clients differ in token and password only
InitSecSpec ==
    /\ InitGateway
    /\ InitRecon
    /\ config.urlOk
    /\ InitChat
    /\ InitText
    /\ InitHook
    /\ InitFed
    /\ InitEmit
    /\ secRuns \in {[r \in {1, 2} |-> SecRun(SecConfig(tk[r], pw[r]))] :
                       tk \in [{1, 2} -> Tokens], pw \in [{1, 2} -> Passwords]}
    /\ secSteps = 0

SpecSec == InitSecSpec /\ [][NextSec]_vars

\* ==========================================================================
\* The two reconnect algorithms side by side: a GatewayClient (gateway.ts
\* 39-123, 178-196) and a ChatSocket (store.ts 262-384; FederatedChatSocket
\* 512-608 is the same code) are given the same sequence of socket outcomes.
\* An outcome is applied to each client that has a socket it can happen to.
\* For the GatewayClient "open" stands for the socket opening and the connect
\* handshake being accepted.
\* ==========================================================================
\* ---- GatewayClient: _connect (gateway.ts 45-54) --------------------------
\* this.ws = new WebSocket(url): the socket this.ws referred to is not closed
\* and still delivers its close event
up_connect(u) ==
    [u EXCEPT !.ws = "connecting",
              !.stale = IF u.ws \in {"connecting", "open"} THEN @ + 1 ELSE @]

\* ---- GatewayClient: connect() (gateway.ts 39-43) -------------------------
upConnect(u) ==
    up_connect([u EXCEPT !.shouldReconnect = TRUE, !.reconnectAttempts = 0])

\* ---- GatewayClient: the accepted connect response (gateway.ts 181-186) ---
upEstablished(u) ==
    [u |-> [u EXCEPT !.ws = "open", !.connected = TRUE, !.reconnectAttempts = 0],
     emitted |-> <<Ev("connected", 0, 0, "payload")>>]

\* ---- GatewayClient: the 'close' listener (gateway.ts 74-93) --------------
upCloseHandler(u, code) ==
    LET s == IF closeReschedules(u.connected, u.shouldReconnect)
             THEN scheduleReconnect(u.reconnectAttempts)
             ELSE [attempts |-> u.reconnectAttempts, armed |-> FALSE,
                   emitted |-> <<>>]
    IN [u |-> [u EXCEPT !.connected = FALSE,
                        !.reconnectAttempts = s.attempts,
                        !.reconnectTimer = IF s.armed THEN "live" ELSE @,
                        !.timersArmed = IF s.armed THEN @ + 1 ELSE @],
        emitted |-> <<Ev("disconnected", 0, 0, code)>> \o s.emitted]

\* ---- GatewayClient: the reconnect timer callback (gateway.ts 116-122) ----
upTimerFires(u, current) ==
    up_connect([u EXCEPT !.timersArmed = @ - 1,
                         !.reconnectTimer = IF current THEN "dead" ELSE @])

\* ---- GatewayClient: disconnect() (gateway.ts 272-284) --------------------
upDisconnect(u) ==
    [u EXCEPT !.shouldReconnect = FALSE,
              !.reconnectTimer = "null",
              !.timersArmed = IF u.reconnectTimer = "live" THEN @ - 1 ELSE @,
              !.ws = "null",
              !.stale = IF u.ws \in {"connecting", "open"} THEN @ + 1 ELSE @,
              !.connected = FALSE]

\* ---- ChatSocket: connect(gwId) (store.ts 262-268) ------------------------
downConnect(c, g) ==
    chat_connect([chatDisconnect(c) EXCEPT !.gwId = g, !.shouldReconnect = TRUE,
                                           !.reconnectAttempts = 0])

\* ---- ChatSocket: the 'open' listener (store.ts 288-293) ------------------
downOpen(c) ==
    [c |-> chatStartHeartbeat([c EXCEPT !.ws = "open", !.reconnectAttempts = 0]),
     emitted |-> <<Ev("open", 0, 0, "none")>>]

\* ---- ChatSocket: the reconnect timer callback (store.ts 378-383) ---------
downTimerFires(c, current) ==
    LET f == [c EXCEPT !.timersArmed = @ - 1,
                       !.reconnectTimer = IF current THEN "dead" ELSE @] IN
    IF f.shouldReconnect THEN chat_connect(f) ELSE [c |-> f, emitted |-> <<>>]

\* the timer of an object that may fire: the one its handle refers to
\* (current) or one whose handle a later scheduleReconnect overwrote
ReconTimerArmed(o, current) ==
    /\ o.timersArmed > 0
    /\ current => o.reconnectTimer = "live"
    /\ ~current => o.timersArmed > (IF o.reconnectTimer = "live" THEN 1 ELSE 0)

ReconStep(u, d, ems, op) ==
    /\ u.stale <= MaxStale /\ u.timersArmed <= MaxTimers
    /\ ChatWithinBounds(d)
    /\ upstream' = u
    /\ downstream' = d
    /\ reconEmitted' = ems
    /\ reconLast' = op
    /\ UNCHANGED nonReconVars

\* connect() is called on both
ReconConnect ==
    LET d == downConnect(downstream, "g1") IN
    ReconStep(upConnect(upstream), d.c, [up |-> <<>>, down |-> d.emitted],
              ReconOp("connect", "none"))

\* disconnect() is called on both
ReconDisconnect ==
    ReconStep(upDisconnect(upstream), chatDisconnect(downstream),
              [up |-> <<>>, down |-> <<>>], ReconOp("disconnect", "none"))

\* the socket each of them is dialling opens
ReconSocketOpens ==
    /\ upstream.ws = "connecting" \/ downstream.ws = "connecting"
    /\ LET u == IF upstream.ws = "connecting" THEN upEstablished(upstream)
                ELSE [u |-> upstream, emitted |-> <<>>]
           d == IF downstream.ws = "connecting" THEN downOpen(downstream)
                ELSE [c |-> downstream, emitted |-> <<>>]
       IN ReconStep(u.u, d.c, [up |-> u.emitted, down |-> d.emitted],
                    ReconOp("open", "none"))

\* the socket each of them has closes with the same code; a dial that fails
\* closes with 1006
ReconSocketCloses(code) ==
    /\ upstream.ws \in {"connecting", "open"} \/ downstream.ws \in {"connecting", "open"}
    /\ "connecting" \in {upstream.ws, downstream.ws} => code = "1006"
    /\ LET u == IF upstream.ws \in {"connecting", "open"}
                THEN upCloseHandler([upstream EXCEPT !.ws = "closed"], code)
                ELSE [u |-> upstream, emitted |-> <<>>]
           d == IF downstream.ws \in {"connecting", "open"}
                THEN chatCloseHandlers([downstream EXCEPT !.ws = "closed"], code)
                ELSE [c |-> downstream, emitted |-> <<>>]
       IN ReconStep(u.u, d.c, [up |-> u.emitted, down |-> d.emitted],
                    ReconOp("close", code))

\* a socket each of them dropped delivers its close event
ReconStaleCloses(code) ==
    /\ upstream.stale > 0 \/ downstream.stale > 0
    /\ code # "1000"
    /\ LET u == IF upstream.stale > 0
                THEN upCloseHandler([upstream EXCEPT !.stale = @ - 1], code)
                ELSE [u |-> upstream, emitted |-> <<>>]
           d == IF downstream.stale > 0
                THEN chatCloseHandlers([downstream EXCEPT !.stale = @ - 1], code)
                ELSE [c |-> downstream, emitted |-> <<>>]
       IN ReconStep(u.u, d.c, [up |-> u.emitted, down |-> d.emitted],
                    ReconOp("staleClose", code))

\* a reconnect timer each of them has armed fires
ReconTimersFire ==
    /\ upstream.timersArmed > 0 \/ downstream.timersArmed > 0
    /\ \E cu, cd \in BOOLEAN :
        /\ upstream.timersArmed > 0 => ReconTimerArmed(upstream, cu)
        /\ upstream.timersArmed = 0 => cu
        /\ downstream.timersArmed > 0 => ReconTimerArmed(downstream, cd)
        /\ downstream.timersArmed = 0 => cd
        /\ LET u == IF upstream.timersArmed > 0 THEN upTimerFires(upstream, cu)
                    ELSE upstream
               d == IF downstream.timersArmed > 0 THEN downTimerFires(downstream, cd)
                    ELSE [c |-> downstream, emitted |-> <<>>]
           IN ReconStep(u, d.c, [up |-> <<>>, down |-> d.emitted],
                        ReconOp("timer", "none"))

NextRecon ==
    \/ ReconConnect
    \/ ReconDisconnect
    \/ ReconSocketOpens
    \/ \E code \in CloseCodes : ReconSocketCloses(code)
    \/ \E code \in CloseCodes : ReconStaleCloses(code)
    \/ ReconTimersFire

InitReconSpec ==
    /\ InitGateway
    /\ config.urlOk
    /\ InitChat
    /\ InitText
    /\ InitHook
    /\ InitFed
    /\ InitEmit
    /\ InitSec
    /\ InitRecon

SpecRecon == InitReconSpec /\ [][NextRecon]_vars

\* ==========================================================================
\* Properties
\* ==========================================================================
Emitted(name) == \E i \in 1..Len(emitted) : emitted[i].name = name

CloseOps == {"close", "errorClose"}

\* C1: with reconnect enabled, a dial that fails before the handshake
\* completes schedules the next attempt as long as attempts remain; stated for
\* the dials of the reconnect timer (a lost connection has scheduled a
\* reconnect and its timer has fired): when the socket of that attempt closes
\* without having been connected, 'reconnecting' is emitted for the next one.
C1_FailedReconnectIsRetried ==
    ( /\ lastOp.op \in CloseOps
      /\ lastOp.sock = ws
      /\ ~lastOp.was
      /\ shouldReconnect
      /\ reconnectTimer = "dead"
      /\ timersArmed = 0
      /\ reconnectAttempts \in 1..(maxReconnectAttempts - 1) )
    => Emitted("reconnecting")

\* The client has stopped dialling on its own: reconnect is wanted, a
\* reconnect cycle was started, and no socket is alive and no timer is armed.
GaveUp ==
    /\ shouldReconnect
    /\ ~connected
    /\ reconnectAttempts >= 1
    /\ timersArmed = 0
    /\ \A s \in Sockets : wsState[s] \in {"unused", "closed"}

\* C2: the client gives up reconnecting (Terminal) only when
\* maxReconnectAttempts successive attempts have failed.
C2_GivesUpOnlyWhenExhausted ==
    GaveUp => reconnectAttempts = maxReconnectAttempts

\* C3: a close event received while connected rejects every pending request
\* with the connection-closed error, empties the pending table, clears the
\* connected flag, emits 'disconnected' and schedules exactly one reconnect
\* if reconnect is enabled and none otherwise.
C3_CloseWhileConnected ==
    [][ (lastOp'.op \in CloseOps /\ connected) =>
          /\ pending' = {}
          /\ ~connected'
          /\ {x \in settled' : x.kind = "request"}
               = {[kind |-> "request", sock |-> 0, id |-> id, how |-> "reject",
                   value |-> "Connection closed"] : id \in pending}
          /\ Len(emitted') >= 1
          /\ emitted'[1].name = "disconnected"
          /\ Cardinality({i \in 1..Len(emitted') : emitted'[i].name = "reconnecting"})
               = (IF shouldReconnect THEN 1 ELSE 0)
          /\ timersArmed' = timersArmed + (IF shouldReconnect THEN 1 ELSE 0)
      ]_vars

C3_Witness ==
    /\ lastOp.op \in CloseOps
    /\ lastOp.was
    /\ \E x \in settled : x.kind = "request" /\ x.value = "Connection closed"
    /\ Emitted("reconnecting")
    /\ timersArmed = 1
    /\ pending = {}

\* C4: a request() issued while the client is not connected fails at once
\* with 'Not connected', sends no frame and registers no pending slot.
C4_RequestRefusedUnlessConnected ==
    (lastOp.op = "request" /\ ~lastOp.was) =>
        /\ sent = <<>>
        /\ lastOp.id = "none"
        /\ settled = {ReqSettle("none", "reject", "Not connected")}

\* C5: while a socket is open and no connect.challenge has arrived on it,
\* the 15 s handshake timeout of its dial is still armed, so that the attempt
\* fails when the window elapses.
C5_ChallengeWindowIsTimed ==
    \A s \in Sockets :
        (wsState[s] = "open" /\ s \notin challenged /\ connProm[s] = "pending")
            => dialTimer[s]

\* C6: after a connect response that carries an error the client is not
\* connected, the socket is dropped and a retry is scheduled.
C6_ConnectErrorLeadsToBackoff ==
    (lastOp.op = "connectRes"
        /\ (lastOp.msg.ok = "false" \/ lastOp.msg.error # "none")) =>
        /\ ~connected
        /\ \A s \in Sockets : wsState[s] # "open"
        /\ timersArmed >= 1

\* C7: a request whose deadline expires is rejected with 'Request timeout'
\* and its slot removed; a response with that id arriving later settles
\* nothing and leaves the pending table, the timers and every other request
\* as they were.
C7_TimeoutThenLateResponse ==
    [][ /\ (lastOp'.op = "requestTimeout" /\ lastOp'.id \in pending) =>
              /\ settled' = {[kind |-> "request", sock |-> 0, id |-> lastOp'.id,
                              how |-> "reject", value |-> "Request timeout"]}
              /\ pending' = pending \ {lastOp'.id}
        /\ (lastOp'.op = "res" /\ lastOp'.id \in DOMAIN outcome
               /\ outcome[lastOp'.id] = "timeout") =>
              /\ settled' = {}
              /\ pending' = pending
              /\ reqTimers' = reqTimers
              /\ outcome' = outcome
              /\ ~resettled'
      ]_vars

C7_Witness ==
    /\ lastOp.op = "res"
    /\ lastOp.id \in DOMAIN outcome
    /\ outcome[lastOp.id] = "timeout"
    /\ pending # {}

\* error.message of a response; undefined when there is no error object or
\* the object has no message
ErrorDotMessage(m) == IF m.error \in {"none", "noMessage"} THEN "undefined" ELSE m.error

\* C8 as stated: a failed response rejects the request with error.message.
C8_RejectsWithErrorMessage ==
    (lastOp.op = "res" /\ settled # {}
        /\ (lastOp.msg.ok = "false" \/ lastOp.msg.error # "none")) =>
        settled = {ReqSettle(lastOp.id, "reject", ErrorDotMessage(lastOp.msg))}

\* C8: a request is settled only when its slot is removed, and only by a
\* response with its own id, by its deadline, or by a close or disconnect; the
\* response resolves it with the payload when ok is not false and there is no
\* error, and rejects it otherwise, with error.message or, when the response
\* has none, with 'Request failed'; a response whose id matches neither a
\* pending slot nor the outstanding connect request changes nothing; no
\* request is settled twice.
C8_Correlation ==
    [][ /\ \A x \in settled' :
              (x.kind = "request" /\ x.id # "none") =>
                  /\ x.id \in pending
                  /\ x.id \notin pending'
                  /\ \/ /\ lastOp'.op = "res"
                        /\ lastOp'.id = x.id
                        /\ lastOp'.msg.id = x.id
                        /\ IF lastOp'.msg.ok # "false" /\ lastOp'.msg.error = "none"
                           THEN x.how = "resolve" /\ x.value = lastOp'.msg.payload
                           ELSE /\ x.how = "reject"
                                /\ x.value = IF lastOp'.msg.error \in {"none", "noMessage"}
                                             THEN "Request failed"
                                             ELSE lastOp'.msg.error
                     \/ /\ lastOp'.op = "requestTimeout"
                        /\ lastOp'.id = x.id
                        /\ x.how = "reject"
                     \/ /\ lastOp'.op \in CloseOps \cup {"disconnect"}
                        /\ x.how = "reject"
        /\ pending \ pending' \subseteq {x.id : x \in settled'}
        /\ (lastOp'.op = "res" /\ lastOp'.id \in pending) =>
              /\ pending' = pending \ {lastOp'.id}
              /\ Cardinality(settled') = 1
        /\ (lastOp'.op = "res" /\ lastOp'.id \notin pending) =>
              /\ settled' = {}
              /\ UNCHANGED <<ws, wsState, dialTimer, connProm, pending, reqTimers,
                             connected, reconnectTimer, timersArmed,
                             reconnectAttempts, shouldReconnect, connectResolve,
                             connectReject, connectId, reqCounter, outcome>>
        /\ ~resettled'
      ]_vars

C8_Witness ==
    /\ lastOp.op = "res"
    /\ lastOp.msg.ok = "false"
    /\ lastOp.msg.error = "none"
    /\ settled = {ReqSettle(lastOp.id, "reject", "Request failed")}
    /\ pending # {}

\* C9: no two ids issued in the process are equal, whichever client and call
\* site asked for them, and the counter part strictly increases.
C9_IdsNeverCollide ==
    \A i, j \in 1..Len(issued) :
        i < j => issued[i].id # issued[j].id /\ issued[i].n < issued[j].n

C9_Witness ==
    /\ Len(issued) >= 3
    /\ \E i, j \in 1..Len(issued) :
          /\ i < j
          /\ issued[i].by # issued[j].by
          /\ issued[i].site # issued[j].site
    /\ \E i \in 1..(Len(issued) - 1) :
          issued[i + 1].n = issued[i].n + 1 /\ issued[i + 1].by = issued[i].by

\* C10: a connect request is sent on a socket only after connect.challenge
\* was received on that socket, and the client becomes connected only by the
\* ok response to the outstanding connect request.
C10_ConnectOnlyAfterChallenge ==
    /\ \A i \in 1..Len(sent) :
          sent[i].method = "connect" => sent[i].sock \in challenged
    /\ (connected /\ ~lastOp.was) => lastOp.op = "connectRes"

BackoffLadder == <<1000, 2000, 4000, 8000, 16000, 30000, 30000, 30000, 30000, 30000>>

ChatEmitted(name) == \E i \in 1..Len(chatEmitted) : chatEmitted[i].name = name

C12_DisconnectStopsEverything ==
    /\ lastOp.op = "disconnect" =>
          /\ ~shouldReconnect
          /\ reconnectTimer = "null"
          /\ ws = 0
          /\ ~connected
          /\ pending = {}
          /\ \A x \in settled : x.how = "reject" /\ x.value = "Disconnected"
          /\ lastOp.sock # 0 => wsState[lastOp.sock] \notin {"connecting", "open"}
    /\ ~shouldReconnect =>
          /\ timersArmed = 0
          /\ pending = {}

\* C13: every frame of type event the client receives, connect.challenge
\* included, is emitted on the generic 'event' channel and also on the channel
\* named by its event name.
C13_EveryEventIsDispatched ==
    lastOp.msg.type = "event" =>
        /\ \E i \in 1..Len(emitted) :
              emitted[i].name = "event" /\ emitted[i].data = lastOp.msg.event
        /\ \E i \in 1..Len(emitted) : emitted[i].name = lastOp.msg.event

\* C15: applying the Thinking Filter twice equals applying it once, for every
\* text.
C15_FilterTwiceEqualsOnce ==
    textPc = "again" => Flatten(twice) = Flatten(cleaned)

\* the text has a match of the tag pattern somewhere
ContainsTag(s) == \E i \in 1..Len(s) : TagEnd(s, i) > 0

\* C16: every assistant message stored from a final event is the filtered
\* text of that event and contains no opening or closing tag of the four
\* families, whatever the upstream text.
C16_StoredFinalsHaveNoTags ==
    \A i \in 1..Len(storedText) :
        /\ storedText[i] = stripThinking(text)
        /\ ~ContainsTag(storedText[i])

\* C17: for the final text '<think>deliberating</think>Answer: 42' the filter
\* yields 'deliberating Answer: 42', and that is the stored message.
C17_ThinkingStripScenario ==
    (text = ThinkingStripScenario /\ textPc # "input") =>
        /\ Flatten(cleaned) = "deliberating Answer: 42"
        /\ storedText = <<cleaned>>

TagStarts(s) == {i \in 1..Len(s) : TagEnd(s, i) > 0}

Covered(s, D) == {p \in 1..Len(s) : \E i \in D : i <= p /\ p <= TagEnd(s, i)}

RECURSIVE KeepFrom(_, _, _)
KeepFrom(s, P, i) ==
    IF i > Len(s) THEN <<>>
    ELSE IF i \in P THEN KeepFrom(s, P, i + 1)
    ELSE <<s[i]>> \o KeepFrom(s, P, i + 1)

\* t is k without white space at its ends
IsTrimOf(t, k) ==
    /\ t # <<>> => ~IsSpace(t[1]) /\ ~IsSpace(t[Len(t)])
    /\ \E a \in 0..Len(k) : \E b \in a..Len(k) :
          /\ t = SubSeq(k, a + 1, b)
          /\ \A p \in 1..a : IsSpace(k[p])
          /\ \A p \in (b + 1)..Len(k) : IsSpace(k[p])

\* C18: the filter is tag elimination only: its result is the text with
\* non-overlapping tags deleted so that every tag of the text is gone, every
\* other character kept in order and nothing inserted, and then white space
\* removed from both ends; it is a function of the text alone.
C18_TagEliminationOnly ==
    textPc # "input" =>
        /\ text # <<>> => cleaned = stripThinking(text)
        /\ \E D \in SUBSET TagStarts(text) :
              /\ \A i, j \in D : i < j => TagEnd(text, i) < j
              /\ TagStarts(text) \subseteq Covered(text, D)
              /\ IsTrimOf(cleaned, KeepFrom(text, Covered(text, D), 1))

C18_Witness ==
    /\ textPc = "final"
    /\ text = <<" ", "<", "THINKING", ">", "a", " ", "b", "<", "/", "THINKING", ">", "\n">>
    /\ cleaned = <<"a", " ", "b">>

\* C14: messages are scoped per (gateway, session key): the assistant message
\* of a turn sent on session k of gateway g is only ever in the list keyed
\* "g|k", also when the active session changes between sending the turn and
\* the arrival of its final.
C14_SessionIsolation ==
    \A key \in StorageKeys :
        \A i \in 1..Len(messagesBySession[key]) :
            messagesBySession[key][i].role = "assistant" =>
                messagesBySession[key][i].origin = key

\* C19: while the socket of a ChatSocket is open its ping interval is armed
\* (a ping goes out every 30 s); a pong cancels the outstanding pong timeout;
\* a pong timeout that fires closes the socket, and the close of a socket
\* closed that way starts a reconnect; at most one pong timeout is armed, and
\* only for the open socket; after a close event or disconnect() neither
\* heartbeat timer is armed.
C19_Heartbeat ==
    /\ chat.ws = "open" => chat.pingInterval /\ chat.pingDue \in 0..PING_INTERVAL
    /\ (chatLast.op = "pingTick" /\ chatLast.was = "open") =>
          chatSent = <<"ping">> /\ chat.pong1 = 1
    /\ chatLast.op = "pong" => chat.pong0 + chat.pong1 = 0
    /\ (chatLast.op = "pongTimeout" /\ chatLast.was = "open") => chat.ws = "closing"
    /\ (chatLast.op = "close" /\ chatLast.was = "closing") =>
          ChatEmitted("reconnecting") /\ chat.timersArmed >= 1
    /\ chat.pong0 + chat.pong1 <= 1
    /\ chat.pong0 + chat.pong1 = 1 => chat.ws = "open"
    /\ chatLast.op \in {"close", "staleClose", "disconnect"} =>
          ~chat.pingInterval /\ chat.pong0 + chat.pong1 = 0

\* sources that have emitted delta text for the turn under way and neither
\* final nor error yet
FedStreamingNow ==
    IF fedTurn = 0 THEN {}
    ELSE {sourceKey(s) : s \in {r \in FedSources : fedRuns[fedTurn][r].state = "streaming"}}

\* C20: the set of streaming sources of useFederatedChat is exactly the set
\* of sources that have emitted a delta in the current turn and no final or
\* error yet, and when that set is empty the streaming indicator is off.
C20_FederatedCompletionTracking ==
    /\ fed.streamingSources = FedStreamingNow
    /\ FedStreamingNow = {} => ~fed.streaming

\* steps of the stream handler, told by what the source has emitted
FedErrorStep(s) ==
    \E t \in FedTurnIds : fedRuns[t][s].state # "error" /\ fedRuns'[t][s].state = "error"

FedFinalStep(s) ==
    \E t \in FedTurnIds : fedRuns[t][s].state # "final" /\ fedRuns'[t][s].state = "final"

FedDeltaStep(s, txt) ==
    \E t \in FedTurnIds : /\ fedRuns'[t][s].deltas = fedRuns[t][s].deltas + 1
                          /\ fedRuns'[t][s].text = fedRuns[t][s].text \o txt

FedPartial(f, key) ==
    IF key \in DOMAIN f.streamingMessages THEN f.streamingMessages[key] ELSE ""

\* the partial texts and streaming entries of every source but key are the same
FedOthersKept(key) ==
    /\ DOMAIN fed'.streamingMessages \ {key} = DOMAIN fed.streamingMessages \ {key}
    /\ \A o \in DOMAIN fed.streamingMessages \ {key} :
          fed'.streamingMessages[o] = fed.streamingMessages[o]
    /\ fed'.streamingSources \ {key} = fed.streamingSources \ {key}

FedSomeError == \E t \in FedTurnIds, s \in FedSources : fedRuns[t][s].state = "error"

\* C21: an error event of one source removes that source's partial text and
\* streaming entry and nothing else: the stored messages and the partial
\* texts and streaming entries of the other sources are unchanged; after an
\* error of some source a delta of another source is still accumulated and a
\* final of another source is still stored.
C21_FederatedFailureIsolation ==
    [][\A s \in FedSources :
          LET key == sourceKey(s) IN
          /\ FedErrorStep(s) =>
                /\ key \notin DOMAIN fed'.streamingMessages
                /\ key \notin fed'.streamingSources
                /\ FedOthersKept(key)
                /\ fed'.messages = fed.messages
          /\ FedSomeError =>
                /\ \A txt \in FedDeltaTexts \ {""} :
                      FedDeltaStep(s, txt) =>
                         /\ FedPartial(fed', key) = FedPartial(fed, key) \o txt
                         /\ key \in fed'.streamingSources
                         /\ fed'.streaming
                /\ FedFinalStep(s) =>
                      /\ Len(fed'.messages) = Len(fed.messages) + 1
                      /\ fed'.messages[Len(fed'.messages)].source = s
    ]_vars

\* one source has failed after streaming text, the other still shows both of
\* its deltas
C21_Witness ==
    \E a \in FedSources, b \in FedSources :
        /\ fedTurn = 1
        /\ fedRuns[1][a].state = "error"
        /\ fedRuns[1][a].text # ""
        /\ sourceKey(a) \notin DOMAIN fed.streamingMessages
        /\ fedRuns[1][b].state = "streaming"
        /\ fedRuns[1][b].deltas = 2
        /\ FedPartial(fed, sourceKey(b)) = "ab"
        /\ fed.error # "null"

\* C22: whatever the interleaving of the sources' events, the partial text
\* accumulated for a source is the concatenation of that source's deltas in
\* arrival order: every delta is appended to what the source had accumulated;
\* an event of one source leaves the partial texts of the others alone; each
\* final appends one assistant message at the end of the list, tagged with the
\* gateway_id and agent_name of the source that sent it.
C22_FederatedPerSourceOrder ==
    [][/\ \A s \in FedSources, txt \in FedDeltaTexts :
             FedDeltaStep(s, txt) =>
                FedPartial(fed', sourceKey(s)) = FedPartial(fed, sourceKey(s)) \o txt
       /\ \A s \in FedSources :
             /\ (FedFinalStep(s) \/ FedErrorStep(s)
                   \/ \E txt \in FedDeltaTexts : FedDeltaStep(s, txt)) =>
                   FedOthersKept(sourceKey(s))
             /\ FedFinalStep(s) =>
                   /\ Len(fed'.messages) = Len(fed.messages) + 1
                   /\ SubSeq(fed'.messages, 1, Len(fed.messages)) = fed.messages
                   /\ LET m == fed'.messages[Len(fed'.messages)] IN
                      /\ m.role = "assistant"
                      /\ m.source.gateway_id = s.gateway_id
                      /\ m.source.agent_name = s.agent_name
    ]_vars

\* two sources interleaved: one has streamed "ba" and sent its final, which is
\* stored; the other shows "ab"
C22_Witness ==
    \E a \in FedSources, b \in FedSources :
        /\ fedTurn = 1
        /\ fedRuns[1][a].state = "final"
        /\ fedRuns[1][a].text = "ba"
        /\ \E i \in 1..Len(fed.messages) : fed.messages[i].source = a
        /\ fedRuns[1][b].state = "streaming"
        /\ FedPartial(fed, sourceKey(b)) = "ab"

\* C23: a chat/stream event that is dispatched reaches every subscriber, once
\* per subscription and after the events dispatched before it: a handler whose
\* subscriptions are the same before and after the dispatch has been invoked
\* with the event exactly that many times, so each subscriber sees the events
\* in the order the frames were received, without loss or duplication.
C23_EventOrderPreserved ==
    [][evReceived' = evReceived + 1 =>
          \A h \in Handlers :
             Subscriptions(eventHandlers', h) = Subscriptions(eventHandlers, h) =>
                evDelivered'[h] =
                   evDelivered[h] \o Repeat(evReceived', Subscriptions(eventHandlers, h))
    ]_vars

\* C24: every accepted request eventually settles, by its response, by its
\* deadline or by the flush of a socket close or disconnect(), and then its
\* pending slot and its timer are gone: a timer is armed only for a slot that
\* is in the table, and no slot stays in the table forever.
C24_EveryRequestSettles ==
    /\ [](reqTimers \subseteq pending)
    /\ \A id \in RequestIds :
          (id \in pending) ~>
             (/\ id \notin pending
              /\ id \notin reqTimers
              /\ id \in DOMAIN outcome
              /\ outcome[id] \in {"response", "timeout", "flush"})

\* a request that got no response and saw no close was settled by its
\* deadline, on a socket that is still open
C24_Witness ==
    /\ lastOp.op = "requestTimeout"
    /\ lastOp.id \in DOMAIN outcome
    /\ outcome[lastOp.id] = "timeout"
    /\ ws # 0
    /\ wsState[ws] = "open"
    /\ pending = {}
    /\ reqTimers = {}

\* C25: the connected flag of a GatewayClient becomes true exactly when the
\* successful response to its connect request is handled, and that handler
\* resets reconnectAttempts to 0 and emits 'connected' once with the payload of
\* the response; every socket close event and every disconnect() leaves the
\* flag false; no other handler changes the flag or emits 'connected'.
C25_ConnectedFlag ==
    [][LET okConnectRes == /\ lastOp'.op = "connectRes"
                           /\ lastOp'.msg.ok # "false"
                           /\ lastOp'.msg.error = "none"
           closes == lastOp'.op \in {"close", "errorClose", "disconnect"}
       IN
       /\ okConnectRes =>
             /\ connected'
             /\ reconnectAttempts' = 0
             /\ emitted' = <<Ev("connected", 0, 0, lastOp'.msg.payload)>>
       /\ closes => ~connected'
       /\ (~okConnectRes /\ ~closes) =>
             /\ connected' = connected
             /\ \A i \in 1..Len(emitted') : emitted'[i].name # "connected"
    ]_vars

\* the handshake has just succeeded on the second socket of the client: the
\* flag is up, the counter is 0 and 'connected' carries the snapshot
C25_Witness ==
    /\ lastOp.op = "connectRes"
    /\ ~lastOp.was
    /\ connected
    /\ ws = 2
    /\ wsState[2] = "open"
    /\ reconnectAttempts = 0
    /\ emitted = <<Ev("connected", 0, 0, "p1")>>

\* what a run shows apart from the auth block of its connect requests: its
\* console lines, events, state, gateway entries, and every frame with the
\* auth of a connect request left out
SecVisibleFrame(f) == IF f.method = "connect" THEN [f EXCEPT !.auth = <<>>] ELSE f

SecVisible(run) ==
    [connectId |-> run.connectId, connected |-> run.connected,
     reqCounter |-> run.reqCounter, log |-> run.log, events |-> run.events,
     gateways |-> run.gateways,
     frames |-> [i \in 1..Len(run.frames) |-> SecVisibleFrame(run.frames[i])],
     config |-> [id |-> run.config.id, name |-> run.config.name, url |-> run.config.url]]

SecCredentials(run) == {run.config.token, run.config.password} \ {""}

\* C26: two clients whose configs differ only in token and password, given
\* the same frames, produce the same console lines, events, state, gateway
\* entries and frames, except for the auth block of the connect request; and
\* no credential is a word of a console line or of an event.
C26_SecretConfinement ==
    /\ SecVisible(secRuns[1]) = SecVisible(secRuns[2])
    /\ \A r \in {1, 2} :
          \A i \in 1..Len(secRuns[r].log) :
             \A j \in 1..Len(secRuns[r].log[i]) :
                secRuns[r].log[i][j] \notin SecCredentials(secRuns[r])
    /\ \A r \in {1, 2} :
          \A i \in 1..Len(secRuns[r].events) :
             \A j \in 1..Len(secRuns[r].events[i]) :
                secRuns[r].events[i][j] \notin SecCredentials(secRuns[r])

\* both clients have completed the handshake with different tokens and
\* passwords, each carried in the auth block of its own connect request
C26_Witness ==
    /\ secRuns[1].config.token \notin {"", secRuns[2].config.token}
    /\ secRuns[1].config.password \notin {"", secRuns[2].config.password}
    /\ Len(secRuns[1].frames) = 1
    /\ secRuns[1].frames[1].auth =
          <<"token", secRuns[1].config.token, "password", secRuns[1].config.password>>
    /\ secRuns[1].frames[1].auth # secRuns[2].frames[1].auth
    /\ secRuns[1].connected
    /\ secRuns[2].connected

\* ---- C27 -----------------------------------------------------------------
\* a switch is in progress from the call of switchGateway or switchSession
\* until the promise it returns settles
SwitchInProgress ==
    listFetches > 0 \/ \E f \in fetches : f.by = "switch"

\* C27: the 5-second poll never starts a history fetch while a turn is
\* streaming or while a gateway/session switch is in progress, and the fetch
\* it starts otherwise is for the active (gateway, session).
C27_HistoryPollingPauses ==
    [][\A f \in fetches' \ fetches :
          f.by = "poll" /\ ~f.answered =>
              /\ ~streaming
              /\ ~SwitchInProgress
              /\ f.gw = activeGatewayId
              /\ f.key = activeSessionKey]_vars

\* ---- C28 -----------------------------------------------------------------
\* the events of the reconnect algorithm among those emitted in a step
ReconEvents(ems) ==
    SelectSeq(ems, LAMBDA e : e.name \in {"reconnecting", "reconnect_failed"})

\* C28: given the same sequence of socket open/close outcomes, GatewayClient
\* and ChatSocket/FederatedChatSocket make the same reconnect attempts with
\* the same delays, reset the attempt counter at the same points and give up
\* (reconnect_failed) at the same point.
C28_OneReconnectAlgorithm ==
    /\ ReconEvents(reconEmitted.up) = ReconEvents(reconEmitted.down)
    /\ upstream.reconnectAttempts = downstream.reconnectAttempts
    /\ upstream.shouldReconnect = downstream.shouldReconnect

\* ---- C29 -----------------------------------------------------------------
\* the ChatSocket emitted reconnect_failed in the last step
ChatGaveUp ==
    \E i \in 1..Len(chatEmitted) : chatEmitted[i].name = "reconnect_failed"

\* C29: ChatSocket/FederatedChatSocket give up only after 10 consecutive
\* reconnect attempts have failed: when reconnect_failed is emitted the
\* counter is 10, no attempt is still running or has succeeded, and
\* shouldReconnect is false; a successful open leaves the counter at 0; the
\* counter is always within 0..10.
C29_GiveUpAfterTenFailures ==
    /\ chat.reconnectAttempts \in 0..maxReconnectAttempts
    /\ chatLast.op = "open" => chat.reconnectAttempts = 0
    /\ ChatGaveUp =>
        /\ chat.reconnectAttempts = maxReconnectAttempts
        /\ ~chat.shouldReconnect
        /\ chat.ws \notin {"connecting", "open"}

\* ---- C30 -----------------------------------------------------------------
\* the step is the 'close' listener of a ChatSocket socket running
ChatCloseStep == chatLast'.op \in {"close", "staleClose"}

\* that listener called scheduleReconnect
ChatCalledSchedule ==
    \E i \in 1..Len(chatEmitted') :
        chatEmitted'[i].name \in {"reconnecting", "reconnect_failed"}

\* the only socket whose close event is still to come is the one the
\* disconnect() of the last call closed, and it is the one that closes
ChatClosedByDisconnect ==
    /\ chatLast.op \in {"connect", "disconnect"}
    /\ chatLast.was \in {"connecting", "open", "closing"}
    /\ chat.stale = 1
    /\ chatLast'.op = "staleClose"

\* C30: a close event makes the ChatSocket schedule a reconnect if and only
\* if shouldReconnect is set and the close code is not 1000
C30_ReconnectIffWantedAndAbnormal ==
    [][ChatCloseStep =>
          (ChatCalledSchedule <=> chat.shouldReconnect /\ chatLast'.code # "1000")]_vars

\* C30: a close with code 1000, and the close of a socket that disconnect()
\* closed, never lead to a new connection: no reconnect is scheduled.
C30_CloseAfterDisconnect ==
    [][ChatCloseStep /\ (chatLast'.code = "1000" \/ ChatClosedByDisconnect) =>
          /\ ~ChatCalledSchedule
          /\ chat'.timersArmed = chat.timersArmed
          /\ chat'.ws # "connecting"]_vars

\* ---- C31 -----------------------------------------------------------------
\* sendMessage ran with a text to send, nothing streaming and a gateway
\* active, and no chat frame was sent
SendFailedStep ==
    /\ hookLast'.op = "sendMessage"
    /\ ~streaming
    /\ activeGatewayId # "null"
    /\ turnsSent' = turnsSent

\* C31: when sendMessage cannot send the chat frame because the socket is not
\* open, every session's message list is what it was before the call (the
\* user message is not left in the list), the streaming flag is false and an
\* error is reported.
C31_SendMessageRollback ==
    [][SendFailedStep =>
          /\ messagesBySession' = messagesBySession
          /\ inflight' = inflight
          /\ ~streaming'
          /\ hookError' # "null"]_vars

\* a send has been refused in a session that already holds messages
C31_Witness ==
    /\ hookLast.op = "sendMessage"
    /\ hookError = NotConnectedError
    /\ ~streaming
    /\ activeGatewayId # "null"
    /\ messagesBySession[getSessionKey(activeGatewayId, activeSessionKey)] # <<>>

\* ---- C32 -----------------------------------------------------------------
\* the step is the close event of a socket the client closed and dropped,
\* delivered while this.ws is a later socket that is connecting or open
LateCloseStep ==
    /\ lastOp'.op \in {"close", "errorClose"}
    /\ ws # 0
    /\ lastOp'.sock # ws
    /\ wsState[lastOp'.sock] \in {"closing", "closing0"}
    /\ wsState[ws] \in {"connecting", "open"}

\* C32: the late close event of a superseded GatewayClient socket does not
\* alter the new connection: the connected flag, the connect promise of the
\* new dial and the pending requests are untouched and no reconnect is
\* scheduled.
C32_LateCloseLeavesNewConnection ==
    [][LateCloseStep =>
          /\ connected' = connected
          /\ connProm'[ws] = connProm[ws]
          /\ pending' = pending
          /\ timersArmed' = timersArmed]_vars

\* ---- C33 -----------------------------------------------------------------
\* C33: a ChatSocket never has more than one reconnect timer pending (its one
\* live socket is this.ws), and the close event of a superseded socket neither
\* stops the heartbeat nor schedules a reconnect.
C33_OneSocketOneTimer ==
    /\ [](chat.timersArmed <= 1)
    /\ [][chatLast'.op = "staleClose" =>
             /\ chat'.pingInterval = chat.pingInterval
             /\ chat'.pongTimeout = chat.pongTimeout
             /\ chat'.timersArmed = chat.timersArmed
             /\ chat'.reconnectAttempts = chat.reconnectAttempts]_vars

\* ---- C34 -----------------------------------------------------------------
\* C34: every promise returned by connect() and by each internal dial
\* eventually settles.
C34_ConnectPromiseSettles ==
    \A s \in Sockets : (connProm[s] = "pending") ~> (connProm[s] = "settled")

\* C35: every handler subscribed once to the event name when an event is
\* dispatched is invoked exactly once with that event, whatever the handlers
\* do during the dispatch (return, throw, unsubscribe themselves or another
\* handler), and a handler that is not subscribed when the event is dispatched
\* is not invoked.
C35_DispatchReachesEverySubscriber ==
    [][evReceived' = evReceived + 1 =>
          \A h \in Handlers :
             /\ Subscriptions(eventHandlers, h) = 1 =>
                   evDelivered'[h] = Append(evDelivered[h], evReceived')
             /\ Subscriptions(eventHandlers, h) = 0 =>
                   evDelivered'[h] = evDelivered[h]
    ]_vars

\* C36: while the streaming flag is true sendMessage changes nothing, and a
\* final or error stream event that arrives on the socket of a gateway other
\* than the active one leaves the streaming flag as it was: the flag set by
\* sendMessage on the active gateway is cleared only by that gateway's own
\* final or error, by abortRun or by a switch.
C36_StreamingFlagOwnedByActiveGateway ==
    [][/\ (streaming /\ hookLast'.op = "sendMessage") =>
              /\ streaming'
              /\ UNCHANGED <<messagesBySession, inflight, turnsSent, hookError>>
       /\ (streaming /\ streaming' = FALSE) =>
              \/ hookLast'.op \in {"abortRun", "switchSession", "switchGateway"}
              \/ /\ hookLast'.op \in {"final", "error"}
                 /\ hookLast'.gw = activeGatewayId
    ]_vars

\* C37: once sendMessage has set the streaming flag, it becomes false again
\* without any call of the user.
C37_StreamingEventuallyEnds == streaming ~> ~streaming

\* C38: when a history response is stored, only the list of the gateway and
\* session key it was requested for changes, and every message of that list
\* that belongs to that session (the optimistic user message of a turn sent
\* there, the assistant final of such a turn) is still in the list afterwards.
C38_HistoryKeepsLocalMessages ==
    [][hookLast'.op = "historyLoaded" =>
          /\ \A s \in StorageKeys :
                s # getSessionKey(hookLast'.gw, hookLast'.key) =>
                   messagesBySession'[s] = messagesBySession[s]
          /\ \A s \in StorageKeys : \A i \in 1..Len(messagesBySession[s]) :
                messagesBySession[s][i].origin = s =>
                   \E j \in 1..Len(messagesBySession'[s]) :
                      messagesBySession'[s][j] = messagesBySession[s][i]
    ]_vars

\* C39: in every state of useFederatedChat the streaming flag is true exactly
\* when the set of streaming sources is not empty, and the partial-text map
\* has exactly the members of that set as its keys.
C39_StreamingFlagMatchesSources ==
    /\ fed.streaming <=> (fed.streamingSources # {})
    /\ DOMAIN fed.streamingMessages = fed.streamingSources

\* one source is streaming while the final of another is in the list, in a
\* session that was created after another one
C39_Witness ==
    /\ fed.streaming
    /\ Cardinality(fed.streamingSources) = 1
    /\ fed.activeFederatedSession = 2
    /\ \E i \in 1..Len(fed.messages) : fed.messages[i].role = "assistant"

\* the stream event handled in this step belongs to the turn that is under
\* way in the active federated session
FedEventOfCurrentTurn ==
    \A t \in FedTurnIds : fedRuns'[t] # fedRuns[t] => t = fedTurn

\* C40: a stream event that adds a message to the list of the active
\* federated session, or that turns its streaming indicator on, belongs to
\* the turn under way in that session: an event of a turn sent in the session
\* that was active before a createSession, switchSession or deleteSession, or
\* of a turn that abortRun has ended, does neither.
C40_FederatedSessionScoping ==
    [][fedRuns' # fedRuns =>
          /\ Len(fed'.messages) > Len(fed.messages) => FedEventOfCurrentTurn
          /\ (~fed.streaming /\ fed'.streaming) => FedEventOfCurrentTurn
    ]_vars

====
